---------------------------- MODULE Spec2Model ----------------------------
(***************************************************************************)
(* A model of the ReStackTrie of trie/stacktrie.go: the streaming builder  *)
(* of a hex-keyed Merkle-Patricia trie.  The state is the trie (a tree of  *)
(* node records), the history of the TryUpdate calls, the outcome of the   *)
(* last call and what Hash returned.  Byte strings are sequences of        *)
(* integers 0..255, indexed from 1 (a Go index i is the TLA+ index i+1).   *)
(*                                                                         *)
(* Two more parts of the repository are modelled next to it, each with a   *)
(* specification of its own: the life cycle of node.Node (Start, Stop,     *)
(* Wait) and the protocol handshake of the RLPx transport.                 *)
(***************************************************************************)
EXTENDS Integers, Sequences, FiniteSets, TLC

VARIABLES
    root,       \* the trie: the root node, with its subtree
    calls,      \* the TryUpdate calls made so far: <<[key, value], ...>>
    status,     \* "" while no call has panicked, else the panic
    phase,      \* "building", then "done" once Hash was called
    rootEnc,    \* the encoding of the root that Hash built
    rootHash,   \* what root.hash() returned to Hash
    digest,     \* what Hash returned
    hashes,     \* the Hash calls made so far: <<[calls, digest], ...>>
    node,       \* the fields of the Node
    p2p,        \* the p2p.Server that New made
    chans,      \* the channels made so far, each "open" or "closed"
    services,   \* the Lifecycle objects: how often each was started, stopped
    waits,      \* the calls of Node.Wait
    ret,        \* what the last call of Node.Start or Node.Stop returned
    hs          \* one run of doProtoHandshake with its writer goroutine

trieVars == <<root, calls, status, phase, rootEnc, rootHash, digest, hashes>>

nodeVars == <<node, p2p, chans, services, waits, ret>>

hsVars == <<hs>>

vars == <<trieVars, nodeVars, hsVars>>

(***************************************************************************)
(* Bounds of the model.                                                    *)
(***************************************************************************)
\* the number of TryUpdate calls in one run
MaxCalls == 3

\* The keys offered to TryUpdate, as byte strings.  In nibbles:
\*   11 11, 11 12   share all nibbles but the last (an odd extension)
\*   11 21          leaves them at the last nibble of that extension
\*   12 11          leaves them in the middle of that extension
\*   12 12          goes with 12 11 through the extension that is left
\*   21 11, 31 11   leave them at the first nibble: a root branch of three
\*   11             a proper prefix of the first three
\*   (empty)        a proper prefix of every other key
Keys == {<<17, 17>>, <<17, 18>>, <<17, 33>>, <<18, 17>>, <<18, 18>>, <<33, 17>>,
         <<49, 17>>, <<17>>, <<>>}

\* a value of 33 bytes: long enough for the streaming encoder and the hasher
LongValue == [i \in 1..33 |-> 100 + i]

\* the values offered to TryUpdate: a single byte below 0x80, a long value,
\* and the empty value (a deletion)
Values == {<<98>>, LongValue, <<>>}

(***************************************************************************)
(* Byte arithmetic.                                                        *)
(***************************************************************************)
\* the conversion byte(x) of a non-negative int
byte(x) == x % 256

\* a | b on bytes
RECURSIVE BitOr(_, _)
BitOr(a, b) ==
    IF a = 0 THEN b
    ELSE IF b = 0 THEN a
    ELSE (IF a % 2 = 1 \/ b % 2 = 1 THEN 1 ELSE 0) + 2 * BitOr(a \div 2, b \div 2)

\* the slice s[from:] of Go (from is 0-based)
SliceFrom(s, from) == SubSeq(s, from + 1, Len(s))

\* the slice s[:to] of Go
SliceTo(s, to) == SubSeq(s, 1, to)

(***************************************************************************)
(* Keccak-256.  The sponge is modelled by a digest of 32 elements made of  *)
(* four polynomial fingerprints of the input (its value as a polynomial at *)
(* four points, modulo a prime); the elements lie above the byte range, so *)
(* that a digest is never mistaken for encoded data, and two inputs of the *)
(* model get the same digest only when they are equal.                     *)
(***************************************************************************)
\* base^e modulo 46337
RECURSIVE PowMod(_, _)
PowMod(base, e) ==
    IF e = 0 THEN 1
    ELSE LET h == PowMod(base, e \div 2)
             sq == (h * h) % 46337
         IN  IF e % 2 = 0 THEN sq ELSE (sq * base) % 46337

\* the powers of the four points, for the positions of the longest input
\* (a branch encoding has at most 535 bytes)
Weights == [base \in {257, 263, 269, 271} |-> [i \in 1..600 |-> PowMod(base, i)]]

\* the sum of (bs[i] + 1) * base^i for i in lo..hi, modulo 46337
RECURSIVE Fingerprint(_, _, _, _)
Fingerprint(bs, base, lo, hi) ==
    IF lo > hi THEN 0
    ELSE IF lo = hi THEN (((bs[lo] + 1) % 46337) * Weights[base][lo]) % 46337
    ELSE LET mid == (lo + hi) \div 2
         IN  (Fingerprint(bs, base, lo, mid) + Fingerprint(bs, base, mid + 1, hi)) % 46337

Keccak256(bs) ==
    LET f1 == 256 + Fingerprint(bs, 257, 1, Len(bs))
        f2 == 256 + Fingerprint(bs, 263, 1, Len(bs))
        f3 == 256 + Fingerprint(bs, 269, 1, Len(bs))
        f4 == 256 + ((Fingerprint(bs, 271, 1, Len(bs)) + Len(bs)) % 46337)
    IN  <<f1, f2, f3, f4>> \o [i \in 1..28 |-> 256]

\* the root of the empty trie
emptyRoot == Keccak256(<<128>>)

\* common.BytesToHash: the last 32 bytes of b, left-padded with zeros
BytesToHash(b) ==
    IF Len(b) >= 32 THEN SubSeq(b, Len(b) - 31, Len(b))
    ELSE [i \in 1..(32 - Len(b)) |-> 0] \o b

(***************************************************************************)
(* Keys.                                                                   *)
(***************************************************************************)
\* keybytesToHex: the nibbles of the key, high nibble first, then the
\* terminator 16
RECURSIVE keybytesToHex(_)
keybytesToHex(str) ==
    IF str = <<>> THEN <<16>>
    ELSE <<Head(str) \div 16, Head(str) % 16>> \o keybytesToHex(Tail(str))

(***************************************************************************)
(* Nodes.  children is a function on the slots that are not nil.           *)
(***************************************************************************)
branchNode == 0
extNode == 1
leafNode == 2
emptyNode == 3
hashedNode == 4

NoChildren == [i \in {} |-> 0]

NewReStackTrie ==
    [nodeType |-> emptyNode, val |-> <<>>, key |-> <<>>, keyOffset |-> 0,
     children |-> NoChildren]

\* children with slot i set to the node c
SetChild(children, i, c) ==
    [j \in (DOMAIN children) \cup {i} |-> IF j = i THEN c ELSE children[j]]

\* children with slot i set to nil
ClearChild(children, i) ==
    [j \in (DOMAIN children) \ {i} |-> children[j]]

(***************************************************************************)
(* Fixed-size buffers: p is the array (indexed from 0, as in Go), pos the  *)
(* write position, err whether an index left the array.                    *)
(***************************************************************************)
NewBuf(n) == [p |-> [i \in 0..(n - 1) |-> 0], pos |-> 0, err |-> FALSE]

\* b.p[i] = v
BufSet(b, i, v) ==
    IF i \in DOMAIN b.p THEN [b EXCEPT !.p[i] = v] ELSE [b EXCEPT !.err = TRUE]

\* b.p[i] |= v
BufOr(b, i, v) ==
    IF i \in DOMAIN b.p THEN [b EXCEPT !.p[i] = BitOr(b.p[i], v)]
    ELSE [b EXCEPT !.err = TRUE]

\* copy(b.p[at:], src): copies what fits; the slice b.p[at:] itself is out
\* of range when at is past the end of the array
BufCopy(b, at, src) ==
    IF at > Cardinality(DOMAIN b.p) THEN [b EXCEPT !.err = TRUE]
    ELSE [b EXCEPT !.p = [i \in DOMAIN b.p |->
                            IF i >= at /\ i - at < Len(src) THEN src[i - at + 1]
                            ELSE b.p[i]]]

\* b.p[from:to]
BufSlice(b, from, to) == [k \in 1..(to - from) |-> b.p[from + k - 1]]

\* pos = at
BufSeek(b, at) == [b EXCEPT !.pos = at]

\* pos += n
BufSkip(b, n) == [b EXCEPT !.pos = b.pos + n]

(***************************************************************************)
(* rawHPRLP: the encoder of the nodes whose encoding is short.  The result *)
(* is [bytes, err]: err is the panic of an index out of range.  Each step  *)
(* of the function takes the buffer as the step before left it.            *)
(***************************************************************************)
\* payload[0] = 192 + byte(...); pos := 1
rawListHeader(key, val) ==
    LET val_header_len == IF Len(val) = 1 /\ val[1] < 128 THEN 0 ELSE 1
        key_header_len == IF Len(key) > 1 THEN 1 ELSE 0
        hplen == IF Len(key) > 0 THEN 1 ELSE 0
    IN  BufSeek(BufSet(NewBuf(32), 0,
                       byte(192 + byte(hplen + key_header_len + (Len(key) \div 2)
                                       + val_header_len + Len(val)))),
                1)

\* add length prefix if needed (key_header_len = 1 when len(key) > 1)
rawKeyHeader(b, key) ==
    IF Len(key) > 1 THEN BufSeek(BufSet(b, 1, byte(1 + (Len(key) \div 2))), 2)
    ELSE b

\* hex prefix
rawHexPrefix(b, key, leaf) ==
    BufSkip(BufSet(b, b.pos, BitOr(byte(16 * (Len(key) % 2)), IF leaf THEN 32 ELSE 0)),
            IF Len(key) % 2 = 0 THEN 1 ELSE 0)

\* payload[pos] |= byte(int(nibble) << (4 * offset)); pos++ when offset is 0
rawNibble(b, nibble, offset) ==
    BufSkip(BufOr(b, b.pos, byte(nibble * (IF offset = 1 THEN 16 ELSE 1))),
            IF offset = 0 THEN 1 ELSE 0)

\* the loop "copy key data" of rawHPRLP, from nibble i (0-based) on
RECURSIVE rawKeyLoop(_, _, _)
rawKeyLoop(b, key, i) ==
    IF i >= Len(key) THEN b
    ELSE rawKeyLoop(rawNibble(b, key[i + 1], 1 - ((Len(key) + i) % 2)), key, i + 1)

\* add key, if present
rawKey(b, key, leaf) ==
    IF Len(key) > 0
    THEN rawKeyLoop(rawHexPrefix(rawKeyHeader(b, key), key, leaf), key, 0)
    ELSE b

\* the value header, if the value isn't a single byte lower than 128
rawValHeader(b, val) ==
    IF Len(val) > 1 \/ val[1] >= 128
    THEN BufSkip(BufSet(b, b.pos, IF Len(val) > 1 THEN byte(byte(Len(val)) + 128)
                                  ELSE byte(Len(val))),
                 1)
    ELSE b

\* copy(payload[pos:], val); pos += len(val)
rawValue(b, val) == BufSkip(BufCopy(b, b.pos, val), Len(val))

\* the slice returned
rawResult(b) ==
    IF b.err \/ b.pos > 32 THEN [bytes |-> <<>>, err |-> "index out of range"]
    ELSE IF b.pos = 2 THEN [bytes |-> BufSlice(b, 1, 2), err |-> ""]
    ELSE [bytes |-> BufSlice(b, 0, b.pos), err |-> ""]

\* val[0] is read when len(val) <= 1
rawHPRLP(key, val, leaf) ==
    IF Len(val) = 0 THEN [bytes |-> <<>>, err |-> "index out of range"]
    ELSE rawResult(rawValue(rawValHeader(rawKey(rawListHeader(key, val), key, leaf),
                                         val),
                            val))

(***************************************************************************)
(* writeHPRLP: the streaming encoder.  The result is [bytes, err]: bytes   *)
(* is everything written to the writer, in order.                          *)
(***************************************************************************)
\* header[maxHeaderSize - 1]: the hex prefix, with the first nibble of an
\* odd-length key
writeHexPrefix(key, leaf) ==
    IF Len(key) % 2 = 0 THEN (IF leaf THEN 32 ELSE 0)
    ELSE BitOr(BitOr(IF leaf THEN 32 ELSE 0, key[1]), 16)

\* the key byte header, if any
writeKeyHeader(key, h3) ==
    IF Len(key) > 1 \/ h3 > 128
    THEN <<byte(128 + byte(Len(key) \div 2) + 1)>> ELSE <<>>

writeValHeaderLen(val) ==
    IF Len(val) > 56 THEN 2
    ELSE IF Len(val) = 1 /\ val[1] < 128 THEN 0 ELSE 1

\* the global header, with optional length
writeListHeader(payloadSize) ==
    IF payloadSize > 56 THEN <<248, byte(payloadSize)>>
    ELSE <<byte(192 + byte(payloadSize))>>

\* the loop "write the key into the sponge": the nibbles from keyOffset on,
\* two per byte
RECURSIVE writeKeyLoop(_, _)
writeKeyLoop(key, i) ==
    IF i + 1 >= Len(key) THEN <<>>
    ELSE <<byte(key[i + 1] * 16 + key[i + 2])>> \o writeKeyLoop(key, i + 2)

\* the RLP prefix of the value, if needed
writeValHeader(val) ==
    IF Len(val) > 56 THEN <<184, byte(Len(val))>>
    ELSE IF Len(val) > 1 \/ val[1] >= 128 THEN <<byte(128 + byte(Len(val)))>>
    ELSE <<>>

\* everything written, given the hex prefix byte h3 and the key header
writeAll(key, val, h3, keyHeader) ==
    writeListHeader(byte(Len(key) \div 2) + (Len(keyHeader) + 1)
                    + writeValHeaderLen(val) + Len(val))
    \o keyHeader \o <<h3>>
    \o writeKeyLoop(key, IF Len(key) % 2 = 0 THEN 0 ELSE 1)
    \o writeValHeader(val) \o val

writeKeyed(key, val, h3) == writeAll(key, val, h3, writeKeyHeader(key, h3))

\* val[0] is read when len(val) <= 1
writeHPRLP(key, val, leaf) ==
    IF Len(val) = 0 THEN [bytes |-> <<>>, err |-> "index out of range"]
    ELSE [bytes |-> writeKeyed(key, val, writeHexPrefix(key, leaf)), err |-> ""]

(***************************************************************************)
(* hash: the encoding of a node, raw when it is short and its Keccak-256   *)
(* otherwise.  The result is [bytes, st, enc, err]: bytes is what hash     *)
(* returns, st the node as hash leaves it (hash sets to nil the children   *)
(* it has consumed), enc the encoding hash built (empty for an empty or a  *)
(* hashed node) and err the panic, if any.                                 *)
(***************************************************************************)
\* the item a branch writes for the reference childhash of a child
branchItem(childhash) ==
    IF Len(childhash) = 1 /\ childhash[1] < 128 THEN childhash
    ELSE <<byte(128 + byte(Len(childhash)))>> \o childhash

\* the list header of a branch whose payload has n bytes
branchHeader(n) ==
    IF n < 56 THEN <<byte(192 + byte(n))>>
    ELSE IF n < 256 THEN <<248, byte(n)>>
    ELSE <<249, byte(n \div 256), byte(n)>>

\* the small encoding of an extension: the loop over the key nibbles, which
\* assigns each nibble to its byte of rlp
RECURSIVE extKeyLoop(_, _, _)
extKeyLoop(b, key, i) ==
    IF i >= Len(key) THEN b
    ELSE extKeyLoop(BufSet(b, 3 - (Len(key) % 2) + (i \div 2),
                           byte(key[i + 1]
                                * (IF (i + 1 + Len(key)) % 2 = 1 THEN 16 ELSE 1))),
                    key, i + 1)

\* rlp[:n]
extResult(b, n) ==
    IF b.err \/ n > 32 THEN [bytes |-> <<>>, err |-> "index out of range"]
    ELSE [bytes |-> BufSlice(b, 0, n), err |-> ""]

\* the small encoding of an extension with key key and child reference ch
extSmallRLP(key, ch) ==
    LET b0 == BufSet(NewBuf(32), 2,
                     IF Len(key) % 2 = 0 THEN 0 ELSE byte(16 + key[1]))
        b1 == BufSet(b0, 1, byte(128 + 1 + (Len(key) \div 2)))
        b2 == extKeyLoop(b1, key, 0)
        b3 == BufCopy(b2, 3 + (Len(key) \div 2), ch)
        b4 == BufSet(b3, 0, byte(192 + 2 + (Len(key) \div 2) + Len(ch)))
    IN  extResult(b4, 3 + (Len(key) \div 2) + Len(ch))

\* what hash returns for the encoding enc of the node st: enc itself when
\* it is short, its Keccak-256 otherwise
encoded(st, enc) ==
    IF Len(enc) < 32 THEN [bytes |-> enc, st |-> st, enc |-> enc, err |-> ""]
    ELSE [bytes |-> Keccak256(enc), st |-> st, enc |-> enc, err |-> ""]

\* hash stopped by the panic err, the node left as st
panicked(st, err) == [bytes |-> <<>>, st |-> st, enc |-> <<>>, err |-> err]

RECURSIVE hash(_)
RECURSIVE hashChildren(_, _, _)

\* the body of the loop for the non-nil child in slot i, r being the result
\* of its hash
hashChild(children, i, payload, r) ==
    IF r.err # ""
    THEN [payload |-> payload, children |-> SetChild(children, i, r.st), err |-> r.err]
    ELSE IF 3 + Len(payload) + 1 + Len(r.bytes) > 544
    THEN [payload |-> payload, children |-> SetChild(children, i, r.st),
          err |-> "index out of range"]
    ELSE hashChildren(ClearChild(children, i), i + 1, payload \o branchItem(r.bytes))

\* the loop of a branch over its children, from slot i on: payload is what
\* was written so far, children the slots not yet set to nil
hashChildren(children, i, payload) ==
    IF i > 15 THEN [payload |-> payload, children |-> children, err |-> ""]
    ELSE IF i \in DOMAIN children
    THEN hashChild(children, i, payload, hash(children[i]))
    ELSE hashChildren(children, i + 1, payload \o <<128>>)

\* the branch after the loop c: the empty 17th value, the header, and the
\* hash unless the payload is short
hashBranchEnd(st, c) ==
    IF c.err # "" THEN panicked(st, c.err)
    ELSE encoded(st, branchHeader(Len(c.payload) + 1) \o c.payload \o <<128>>)

hashBranchLoop(st, c) == hashBranchEnd([st EXCEPT !.children = c.children], c)

hashBranch(st) == hashBranchLoop(st, hashChildren(st.children, 0, <<>>))

\* the small extension returns rlp and keeps its child
hashExtSmall(st, e) == [bytes |-> e.bytes, st |-> st, enc |-> e.bytes, err |-> e.err]

\* the other extension is written to the sponge, and its child set to nil
hashExtLong(st, w) ==
    IF w.err # "" THEN panicked(st, w.err)
    ELSE [bytes |-> Keccak256(w.bytes),
          st |-> [st EXCEPT !.children = ClearChild(st.children, 0)],
          enc |-> w.bytes, err |-> ""]

\* the extension st after the hash r of its child
hashExtChild(st, r) ==
    IF r.err # "" THEN panicked(st, r.err)
    ELSE IF (Len(st.key) \div 2) + 1 + Len(r.bytes) < 29
    THEN hashExtSmall(st, extSmallRLP(st.key, r.bytes))
    ELSE hashExtLong(st, writeHPRLP(st.key, r.bytes, FALSE))

hashExtWith(st, r) ==
    hashExtChild([st EXCEPT !.children = SetChild(st.children, 0, r.st)], r)

hashExt(st) ==
    IF 0 \notin DOMAIN st.children THEN panicked(st, "nil pointer dereference")
    ELSE hashExtWith(st, hash(st.children[0]))

hashLeafRaw(st, e) == [bytes |-> e.bytes, st |-> st, enc |-> e.bytes, err |-> e.err]

hashLeafLong(st, w) ==
    IF w.err # "" THEN panicked(st, w.err)
    ELSE [bytes |-> Keccak256(w.bytes), st |-> st, enc |-> w.bytes, err |-> ""]

\* hashLeaf without the test of the length: every leaf goes to rawHPRLP
hashLeafAlwaysRaw(st) == hashLeafRaw(st, rawHPRLP(st.key, st.val, TRUE))

hashLeaf(st) ==
    IF (Len(st.key) \div 2) + 1 + Len(st.val) < 29
    THEN hashLeafRaw(st, rawHPRLP(st.key, st.val, TRUE))
    ELSE hashLeafLong(st, writeHPRLP(st.key, st.val, TRUE))

\* hash with the emptyNode case falling through to d.Sum(nil): the digest
\* of a sponge nothing was written to
hashEmptySum(st) ==
    IF st.nodeType = hashedNode
    THEN [bytes |-> st.val, st |-> st, enc |-> <<>>, err |-> ""]
    ELSE IF st.nodeType = branchNode THEN hashBranch(st)
    ELSE IF st.nodeType = extNode THEN hashExt(st)
    ELSE IF st.nodeType = leafNode THEN hashLeaf(st)
    ELSE IF st.nodeType = emptyNode
    THEN [bytes |-> Keccak256(<<>>), st |-> st, enc |-> <<>>, err |-> ""]
    ELSE panicked(st, "Invalid node type")

hash(st) ==
    IF st.nodeType = hashedNode
    THEN [bytes |-> st.val, st |-> st, enc |-> <<>>, err |-> ""]
    ELSE IF st.nodeType = branchNode THEN hashBranch(st)
    ELSE IF st.nodeType = extNode THEN hashExt(st)
    ELSE IF st.nodeType = leafNode THEN hashLeaf(st)
    ELSE IF st.nodeType = emptyNode
    THEN [bytes |-> emptyRoot, st |-> st, enc |-> <<>>, err |-> ""]
    ELSE panicked(st, "Invalid node type")

(***************************************************************************)
(* insert.  The result is [st, err]: st is the node as insert leaves it    *)
(* and err the panic, if any.  A panic of insert itself leaves the nodes   *)
(* above it as they were changed on the way down.                          *)
(***************************************************************************)
\* getDiffIndex: the loop from diffindex on; -1 when the loop indexes past
\* the end of key
RECURSIVE diffLoop(_, _, _)
diffLoop(st, key, diffindex) ==
    IF diffindex >= Len(st.key) THEN diffindex
    ELSE IF st.keyOffset + diffindex >= Len(key) THEN -1
    ELSE IF st.key[diffindex + 1] = key[st.keyOffset + diffindex + 1]
    THEN diffLoop(st, key, diffindex + 1)
    ELSE diffindex

\* the index d of the loop, turned into an index past the end of st.key
\* when the chunk matches to its end
pastTheEnd(st, d) == IF d >= Len(st.key) THEN -1 ELSE d

\* getDiffIndex whose loop compares before it tests diffindex against
\* len(st.key): a chunk that matches to its end is indexed past its end
getDiffIndexUnbounded(st, key) == pastTheEnd(st, diffLoop(st, key, 0))

getDiffIndex(st, key) == diffLoop(st, key, 0)

\* the node of the result r of hash, with
\* val = the hash; key = nil; nodeType = hashedNode
collapsed(r) ==
    IF r.err # "" THEN [st |-> r.st, err |-> r.err]
    ELSE [st |-> [r.st EXCEPT !.val = r.bytes, !.nodeType = hashedNode, !.key = <<>>],
          err |-> ""]

\* n.val = n.hash(); n.key = nil; n.nodeType = hashedNode
\* The result is [st, err].
collapse(n) == collapsed(hash(n))

\* the nearest non-nil slot below idx, or -1
RECURSIVE nearestLeft(_, _)
nearestLeft(children, i) ==
    IF i < 0 THEN -1
    ELSE IF i \in DOMAIN children THEN i
    ELSE nearestLeft(children, i - 1)

\* the nearest slot from i down that is non-nil and not hashed, or -1
RECURSIVE nearestLive(_, _)
nearestLive(children, i) ==
    IF i < 0 THEN -1
    ELSE IF i \in DOMAIN children /\ children[i].nodeType # hashedNode THEN i
    ELSE nearestLive(children, i - 1)

RECURSIVE insert(_, _, _)

\* branchChild whose new node keeps the key offset 0 of NewReStackTrie
branchChildAtRoot(st, idx) ==
    IF idx \in DOMAIN st.children THEN st.children
    ELSE SetChild(st.children, idx, NewReStackTrie)

\* the children of a branch with a new empty node in slot idx, if it is nil
branchChild(st, idx) ==
    IF idx \in DOMAIN st.children THEN st.children
    ELSE SetChild(st.children, idx,
                  [NewReStackTrie EXCEPT !.keyOffset = st.keyOffset + 1])

\* children with the result h of a collapse in slot i: [children, err]
collapsedAt(children, i, h) == [children |-> SetChild(children, i, h.st), err |-> h.err]

\* the loop of a branch over the slots below idx: the nearest non-nil one,
\* i, is hashed unless it is already
collapseLeft(children, i) ==
    IF i >= 0 /\ children[i].nodeType # hashedNode
    THEN collapsedAt(children, i, collapse(children[i]))
    ELSE [children |-> children, err |-> ""]

\* st with the result r of an insert in slot idx of children
insertedChild(st, children, idx, r) ==
    [st |-> [st EXCEPT !.children = SetChild(children, idx, r.st)], err |-> r.err]

\* st.children[idx].insert(key, value), c being the children as the loop
\* left them
insertChild(st, c, idx, key, value) ==
    IF c.err # "" THEN [st |-> [st EXCEPT !.children = c.children], err |-> c.err]
    ELSE insertedChild(st, c.children, idx, insert(c.children[idx], key, value))

\* insertBranchAt whose loop starts at idx instead of idx - 1: the slot the
\* key goes to is itself taken for a sibling on the left, and hashed
insertBranchAtInclusive(st, key, value, idx, c1) ==
    insertChild(st, collapseLeft(c1, nearestLeft(c1, idx)), idx, key, value)

\* insertBranchAt whose loop goes on past the siblings that are hashed, to
\* the nearest one that is not
insertBranchAtSkipHashed(st, key, value, idx, c1) ==
    insertChild(st, collapseLeft(c1, nearestLive(c1, idx - 1)), idx, key, value)

\* the branch case from the loop on, c1 being the children with slot idx set
insertBranchAt(st, key, value, idx, c1) ==
    insertChild(st, collapseLeft(c1, nearestLeft(c1, idx - 1)), idx, key, value)

\* insertBranch without the loop that hashes the nearest sibling on the left
insertBranchNoCollapse(st, key, value) ==
    IF st.keyOffset >= Len(key) THEN [st |-> st, err |-> "index out of range"]
    ELSE insertChild(st, [children |-> branchChild(st, key[st.keyOffset + 1]),
                          err |-> ""],
                     key[st.keyOffset + 1], key, value)

insertBranch(st, key, value) ==
    IF st.keyOffset >= Len(key) THEN [st |-> st, err |-> "index out of range"]
    ELSE insertBranchAt(st, key, value, key[st.keyOffset + 1],
                        branchChild(st, key[st.keyOffset + 1]))

\* splitExtOrig that always reuses the child, also when the break is
\* before the last nibble of the extension
splitExtOrigChild(st, diffidx) ==
    [st.children[0] EXCEPT !.keyOffset = st.keyOffset + diffidx + 1]

\* the original part of a split extension: an intermediate extension, or
\* the child itself
splitExtOrig(st, diffidx) ==
    IF diffidx < Len(st.key) - 1
    THEN [NewReStackTrie EXCEPT
              !.key = SliceFrom(st.key, diffidx + 1),
              !.children = IF 0 \in DOMAIN st.children
                           THEN SetChild(NoChildren, 0, st.children[0])
                           ELSE NoChildren,
              !.nodeType = extNode,
              !.keyOffset = st.keyOffset + diffidx + 1]
    ELSE [st.children[0] EXCEPT !.keyOffset = st.keyOffset + diffidx + 1]

\* splitLeafNew with o.key = key: the leaf keeps the whole key instead of
\* the part from its key offset on
splitLeafNewWholeKey(key, value, oOffset) ==
    [NewReStackTrie EXCEPT !.keyOffset = oOffset,
                           !.key = key,
                           !.val = value,
                           !.nodeType = leafNode]

\* the leaf for the inserted part of a split, at key offset oOffset
splitLeafNew(key, value, oOffset) ==
    [NewReStackTrie EXCEPT !.keyOffset = oOffset,
                           !.key = SliceFrom(key, oOffset),
                           !.val = value,
                           !.nodeType = leafNode]

\* the split of an extension at diffidx < len(st.key), n being the
\* original part, hashed, and o the leaf of the inserted part
splitExtWith(st, key, diffidx, n, o) ==
    IF n.err # "" THEN [st |-> st, err |-> n.err]
    ELSE IF diffidx = 0
    THEN [st |-> [st EXCEPT !.nodeType = branchNode,
                            !.children = SetChild(SetChild(ClearChild(st.children, 0),
                                                           st.key[diffidx + 1], n.st),
                                                  key[diffidx + st.keyOffset + 1], o),
                            !.key = SliceTo(st.key, diffidx)],
          err |-> ""]
    ELSE [st |-> [st EXCEPT !.children =
                                SetChild(st.children, 0,
                                         [NewReStackTrie EXCEPT
                                              !.nodeType = branchNode,
                                              !.keyOffset = st.keyOffset + diffidx,
                                              !.children =
                                                  SetChild(SetChild(NoChildren,
                                                                    st.key[diffidx + 1],
                                                                    n.st),
                                                           key[diffidx + st.keyOffset + 1],
                                                           o)]),
                            !.key = SliceTo(st.key, diffidx)],
          err |-> ""]

splitExt(st, key, value, diffidx) ==
    IF diffidx >= Len(st.key) - 1 /\ 0 \notin DOMAIN st.children
    THEN [st |-> st, err |-> "nil pointer dereference"]
    ELSE splitExtWith(st, key, diffidx, collapse(splitExtOrig(st, diffidx)),
                      splitLeafNew(key, value, st.keyOffset + diffidx + 1))

\* the extension case, diffidx being the result of getDiffIndex
insertExtAt(st, key, value, diffidx) ==
    IF diffidx < 0 THEN [st |-> st, err |-> "index out of range"]
    ELSE IF diffidx = Len(st.key)
    THEN IF 0 \notin DOMAIN st.children
         THEN [st |-> st, err |-> "nil pointer dereference"]
         ELSE insertedChild(st, st.children, 0, insert(st.children[0], key, value))
    ELSE splitExt(st, key, value, diffidx)

insertExt(st, key, value) == insertExtAt(st, key, value, getDiffIndex(st, key))

\* splitLeafWith without the test diffidx == 0: the leaf is always turned
\* into an extension over a new branch
splitLeafWithExt(st, diffidx, orig, both) ==
    IF orig.err # "" THEN [st |-> st, err |-> orig.err]
    ELSE [st |-> [st EXCEPT !.nodeType = extNode,
                            !.children =
                                SetChild(st.children, 0,
                                         [NewReStackTrie EXCEPT
                                              !.nodeType = branchNode,
                                              !.keyOffset = st.keyOffset + diffidx,
                                              !.children = both]),
                            !.key = SliceTo(st.key, diffidx)],
          err |-> ""]

\* the split of a leaf at diffidx < len(st.key), both being the two
\* children of the new branch and orig the result of the hash of the first
splitLeafWith(st, diffidx, orig, both) ==
    IF orig.err # "" THEN [st |-> st, err |-> orig.err]
    ELSE IF diffidx = 0
    THEN [st |-> [st EXCEPT !.nodeType = branchNode,
                            !.children = both,
                            !.key = SliceTo(st.key, diffidx)],
          err |-> ""]
    ELSE [st |-> [st EXCEPT !.nodeType = extNode,
                            !.children =
                                SetChild(st.children, 0,
                                         [NewReStackTrie EXCEPT
                                              !.nodeType = branchNode,
                                              !.keyOffset = st.keyOffset + diffidx,
                                              !.children = both]),
                            !.key = SliceTo(st.key, diffidx)],
          err |-> ""]

\* the two children of the branch of a split leaf
splitLeafBoth(st, key, diffidx, orig, new) ==
    SetChild(SetChild(IF diffidx = 0 THEN ClearChild(st.children, 0) ELSE NoChildren,
                      st.key[diffidx + 1], orig.st),
             key[diffidx + st.keyOffset + 1], new)

splitLeafOrig(st, key, diffidx, orig, new) ==
    splitLeafWith(st, diffidx, orig, splitLeafBoth(st, key, diffidx, orig, new))

splitLeaf(st, key, value, diffidx) ==
    splitLeafOrig(st, key, diffidx,
                  collapse([NewReStackTrie EXCEPT
                                !.nodeType = leafNode,
                                !.key = SliceFrom(st.key, diffidx + 1),
                                !.val = st.val,
                                !.keyOffset = st.keyOffset + diffidx + 1]),
                  splitLeafNew(key, value, st.keyOffset + diffidx + 1))

\* the leaf case, diffidx being the result of getDiffIndex
insertLeafAt(st, key, value, diffidx) ==
    IF diffidx < 0 THEN [st |-> st, err |-> "index out of range"]
    ELSE IF diffidx >= Len(st.key)
    THEN [st |-> st, err |-> "Trying to insert into existing key"]
    ELSE splitLeaf(st, key, value, diffidx)

insertLeaf(st, key, value) == insertLeafAt(st, key, value, getDiffIndex(st, key))

insertEmpty(st, key, value) ==
    IF st.keyOffset > Len(key) THEN [st |-> st, err |-> "index out of range"]
    ELSE [st |-> [st EXCEPT !.nodeType = leafNode,
                            !.key = SliceFrom(key, st.keyOffset),
                            !.val = value],
          err |-> ""]

\* insert whose hashedNode case takes the node for an empty one instead of
\* panicking
insertIntoHashed(st, key, value) ==
    IF st.nodeType = branchNode THEN insertBranch(st, key, value)
    ELSE IF st.nodeType = extNode THEN insertExt(st, key, value)
    ELSE IF st.nodeType = leafNode THEN insertLeaf(st, key, value)
    ELSE IF st.nodeType = emptyNode \/ st.nodeType = hashedNode
    THEN insertEmpty(st, key, value)
    ELSE [st |-> st, err |-> "invalid type"]

insert(st, key, value) ==
    IF st.nodeType = branchNode THEN insertBranch(st, key, value)
    ELSE IF st.nodeType = extNode THEN insertExt(st, key, value)
    ELSE IF st.nodeType = leafNode THEN insertLeaf(st, key, value)
    ELSE IF st.nodeType = emptyNode THEN insertEmpty(st, key, value)
    ELSE IF st.nodeType = hashedNode
    THEN [st |-> st, err |-> "trying to insert into hash"]
    ELSE [st |-> st, err |-> "invalid type"]

(***************************************************************************)
(* node.Node: Start, Stop and Wait.  Start and Stop hold n.lock from their *)
(* first statement to their return, so each is one step; Wait reads the    *)
(* nd under the read lock and then receives from the channel it read,    *)
(* which is a second step.  The p2p.Server, the Lifecycle objects and the  *)
(* instance directory are the environment: each of their calls may return  *)
(* an error.  A panic or Fatalf ends the program.                          *)
(***************************************************************************)
\* the kind of Lifecycle that callers register
Kinds == {"eth"}

\* the kind of n.httpServers, which configureRPC registers
httpServers == "httpServers"

\* the callers of Wait, each of which calls it once
Waiters == {1, 2}

\* the number of times Start gets as far as n.server.Start()
MaxStarts == 2

\* the node New returns: the p2p server is made but not started, no
\* lifecycle is registered and stop is nil (0: no channel); dataDir is
\* whether config.DataDir is set
newNode(dataDir) ==
    [server |-> "srv", stop |-> 0, lifecycles |-> {}, instanceDirLock |-> FALSE,
     dataDir |-> dataDir]

\* what Start and Stop return: err is the error ("" is nil), panic the
\* panic that ended the call, started the lifecycles whose Start succeeded
\* in the call and failed the one whose Start returned the error
returned(op, err) == [op |-> op, err |-> err, panic |-> "", started |-> {}, failed |-> ""]

NodeNew ==
    /\ node = newNode(TRUE)
    /\ p2p = [running |-> FALSE, starts |-> 0]
    /\ chans = <<>>
    /\ services = [k \in Kinds \cup {httpServers} |-> [starts |-> 0, stops |-> 0]]
    /\ waits = [w \in Waiters |-> [pc |-> "idle", stop |-> 0, running |-> FALSE]]
    /\ ret = returned("New", "")

\* the program has ended in a panic or in Fatalf
Crashed == ret.panic # ""

\* p2p.Server: Start sets the server running unless it fails, Stop ends it,
\* and Running tells which; starts counts the calls of Start
serverStart(srv, ok) == [running |-> ok, starts |-> srv.starts + 1]

serverStop(srv) == [srv EXCEPT !.running = FALSE]

\* n.running(), for a node whose server is not nil
running == p2p.running

\* the orders in which a range loop may visit the keys of the map S
Orders(S) == {o \in [1..Cardinality(S) -> S] : \A i, j \in DOMAIN o : o[i] = o[j] => i = j}

\* RegisterLifecycle: Fatalf when the kind is registered already
RegisterLifecycle(kind) ==
    /\ ~Crashed
    /\ IF kind \in node.lifecycles
       THEN /\ ret' = [returned("RegisterLifecycle", "") EXCEPT !.panic = "Fatalf"]
            /\ node' = node
       ELSE /\ node' = [node EXCEPT !.lifecycles = @ \cup {kind}]
            /\ ret' = ret
    /\ UNCHANGED <<p2p, chans, services, waits, trieVars, hsVars>>

\* Start called on each lifecycle of the set S
startedAll(svc, S) ==
    [k \in DOMAIN svc |-> IF k \in S THEN [svc[k] EXCEPT !.starts = @ + 1] ELSE svc[k]]

\* stopLifecycles: Stop called on each lifecycle of started
stopLifecycles(svc, started) ==
    [k \in DOMAIN svc |-> IF k \in started THEN [svc[k] EXCEPT !.stops = @ + 1] ELSE svc[k]]

\* the lifecycles whose Start has succeeded when the loop over order ends:
\* failAt is the position of the one whose Start returns an error, 0 if none
startedOf(order, failAt) ==
    {order[i] : i \in 1..(IF failAt = 0 THEN Len(order) ELSE failAt - 1)}

\* Start without the stopLifecycles(started) of the failure path
startFailedNoRollback(svc, order, failAt) == startedAll(svc, startedOf(order, failAt))

\* the lifecycles after a loop that fails at failAt: the ones started are
\* stopped again
startFailed(svc, order, failAt) ==
    stopLifecycles(startedAll(svc, startedOf(order, failAt)), startedOf(order, failAt))

\* Start that keeps the stop channel it has instead of making one
startKeepsStop(nd, made) == nd.stop

\* n.stop = make(chan struct{}): the number of the new channel
startMakesStop(nd, made) == made + 1

\* Start from "Start all registered lifecycles" on, the p2p server running
\* and configureRPC done: nd is the node with httpServers registered
startLifecycles(nd, order, failAt) ==
    IF failAt # 0
    THEN /\ services' = startFailed(services, order, failAt)
         /\ p2p' = serverStop(serverStart(p2p, TRUE))
         /\ node' = nd
         /\ chans' = chans
         /\ ret' = [returned("Start", "lifecycle") EXCEPT
                        !.started = startedOf(order, failAt), !.failed = order[failAt]]
    ELSE /\ services' = startedAll(services, startedOf(order, failAt))
         /\ p2p' = serverStart(p2p, TRUE)
         /\ node' = [nd EXCEPT !.stop = startMakesStop(nd, Len(chans))]
         /\ chans' = IF startMakesStop(nd, Len(chans)) > Len(chans)
                     THEN Append(chans, "open") ELSE chans
         /\ ret' = [returned("Start", "") EXCEPT !.started = startedOf(order, failAt)]

\* Start from n.server.Start() on, nd being the node after openDataDir
startServer(nd, srvErr, rpcErr) ==
    /\ p2p.starts < MaxStarts
    /\ IF srvErr
       THEN /\ node' = nd
            /\ p2p' = serverStart(p2p, FALSE)
            /\ ret' = returned("Start", "server")
            /\ UNCHANGED <<chans, services>>
       ELSE IF rpcErr
       THEN /\ node' = nd
            /\ p2p' = serverStop(serverStart(p2p, TRUE))
            /\ services' = stopLifecycles(services, {httpServers})
            /\ ret' = returned("Start", "rpc")
            /\ UNCHANGED chans
       ELSE \E order \in Orders(nd.lifecycles \cup {httpServers}) :
                \E failAt \in 0..Len(order) :
                    startLifecycles([nd EXCEPT !.lifecycles = @ \cup {httpServers}],
                                    order, failAt)

Start ==
    /\ ~Crashed
    /\ IF node.server = "nil"
       THEN /\ ret' = [returned("Start", "") EXCEPT !.panic = "nil pointer dereference"]
            /\ UNCHANGED <<node, p2p, chans, services>>
       ELSE IF running
       THEN /\ ret' = returned("Start", "ErrNodeRunning")
            /\ UNCHANGED <<node, p2p, chans, services>>
       ELSE \/ /\ node.dataDir
               /\ ret' = returned("Start", "datadir")
               /\ UNCHANGED <<node, p2p, chans, services>>
            \/ \E srvErr, rpcErr \in BOOLEAN :
                   startServer([node EXCEPT !.instanceDirLock = @ \/ node.dataDir],
                               srvErr, rpcErr)
    /\ UNCHANGED <<waits, trieVars, hsVars>>

\* close(n.stop): the channels after it, or the panic
closed(stop) ==
    IF stop = 0 THEN [chans |-> chans, panic |-> "close of nil channel"]
    ELSE IF chans[stop] = "closed"
    THEN [chans |-> chans, panic |-> "close of closed channel"]
    ELSE [chans |-> [chans EXCEPT ![stop] = "closed"], panic |-> ""]

\* Stop of a running node: failing is the set of lifecycles whose Stop
\* returns an error, keystoreErr whether os.RemoveAll does
stopRunning(failing, keystoreErr, c) ==
    /\ services' = stopLifecycles(services, node.lifecycles)
    /\ p2p' = serverStop(p2p)
    /\ node' = [node EXCEPT !.lifecycles = {}, !.server = "nil", !.instanceDirLock = FALSE]
    /\ chans' = c.chans
    /\ ret' = IF c.panic # "" THEN [returned("Stop", "") EXCEPT !.panic = c.panic]
              ELSE IF failing # {} THEN returned("Stop", "StopError")
              ELSE IF keystoreErr THEN returned("Stop", "keystore")
              ELSE returned("Stop", "")

\* Stop that goes on when the node is not running
StopAnyway ==
    /\ ~Crashed
    /\ \E failing \in SUBSET node.lifecycles, keystoreErr \in BOOLEAN :
           stopRunning(failing, keystoreErr, closed(node.stop))
    /\ UNCHANGED <<waits, trieVars, hsVars>>

Stop ==
    /\ ~Crashed
    /\ IF node.server = "nil" \/ ~running
       THEN /\ ret' = returned("Stop", "ErrNodeStopped")
            /\ UNCHANGED <<node, p2p, chans, services>>
       ELSE \E failing \in SUBSET node.lifecycles, keystoreErr \in BOOLEAN :
                stopRunning(failing, keystoreErr, closed(node.stop))
    /\ UNCHANGED <<waits, trieVars, hsVars>>

\* the test of Wait for the immediate return
waitReturns(nd) == nd.server = "nil"

\* Wait up to n.lock.RUnlock(): it returns, or goes on to receive from the
\* channel it read; running records whether the node was running
WaitCall(w) ==
    /\ ~Crashed
    /\ waits[w].pc = "idle"
    /\ waits' = [waits EXCEPT ![w] =
                     [pc |-> IF waitReturns(node) THEN "returned" ELSE "blocked",
                      stop |-> IF waitReturns(node) THEN 0 ELSE node.stop,
                      running |-> node.server # "nil" /\ running]]
    /\ UNCHANGED <<node, p2p, chans, services, ret, trieVars, hsVars>>

\* <-stop: a receive from a nil channel never returns, one from a closed
\* channel does
WaitReceive(w) ==
    /\ ~Crashed
    /\ waits[w].pc = "blocked"
    /\ waits[w].stop # 0
    /\ chans[waits[w].stop] = "closed"
    /\ waits' = [waits EXCEPT ![w].pc = "returned"]
    /\ UNCHANGED <<node, p2p, chans, services, ret, trieVars, hsVars>>

(***************************************************************************)
(* rlpxTransport.doProtoHandshake: the caller starts a goroutine that      *)
(* sends our handshake and puts the result of Send on the channel werr     *)
(* (of capacity 1), reads the handshake of the peer, and receives from     *)
(* werr before it returns.  The connection is the environment: ReadMsg     *)
(* returns any message or an error, Send returns nil or an error.          *)
(***************************************************************************)
\* the first protocol version that is sent with Snappy
snappyProtocolVersion == 5

\* the versions a handshake may carry
Versions == {4, 5}

\* what rw.ReadMsg() may return: an error, or a message with its code,
\* whether its size is above baseProtocolMaxMsgSize, whether its payload
\* decodes, whether the ID it carries has 64 bytes that are not all zero,
\* and the version it carries
Messages ==
    {[err |-> e, code |-> "", big |-> FALSE, decodes |-> FALSE, id |-> FALSE,
      version |-> 0] : e \in {"EOF", "i/o timeout"}}
    \cup {[err |-> "", code |-> c, big |-> b, decodes |-> FALSE, id |-> FALSE,
           version |-> 0] :
              c \in {"handshakeMsg", "discMsg", "pingMsg"}, b \in BOOLEAN}
    \cup {[err |-> "", code |-> "handshakeMsg", big |-> FALSE, decodes |-> TRUE,
           id |-> i, version |-> v] : i \in BOOLEAN, v \in Versions}

\* what Send may return ("" is nil)
SendErrors == {"", "broken pipe", "i/o timeout"}

\* readProtocolHandshake from the return of rw.ReadMsg() on: [their, err],
\* their being the version of the handshake read (0: nil)
readProtocolHandshake(msg) ==
    IF msg.err # "" THEN [their |-> 0, err |-> msg.err]
    ELSE IF msg.big THEN [their |-> 0, err |-> "message too big"]
    ELSE IF msg.code = "discMsg" THEN [their |-> 0, err |-> "DiscReason"]
    ELSE IF msg.code # "handshakeMsg" THEN [their |-> 0, err |-> "expected handshake"]
    ELSE IF ~msg.decodes THEN [their |-> 0, err |-> "rlp: decode"]
    ELSE IF ~msg.id THEN [their |-> 0, err |-> "DiscInvalidIdentity"]
    ELSE [their |-> msg.version, err |-> ""]

\* before the call: pc is where doProtoHandshake stands, writer where the
\* goroutine stands, werr the channel, msg what ReadMsg returned, read what
\* readProtocolHandshake returned, sent what Send returned, their and err
\* what doProtoHandshake returns and snappy what it set on the connection
newHandshake(our) ==
    [pc |-> "idle", writer |-> "none", werr |-> <<>>, our |-> our,
     msg |-> [err |-> "", code |-> "", big |-> FALSE, decodes |-> FALSE,
              id |-> FALSE, version |-> 0],
     read |-> [their |-> 0, err |-> ""], sent |-> "",
     their |-> 0, err |-> "", snappy |-> FALSE]

HandshakeNew == hs = newHandshake(5)

HandshakeInit ==
    /\ hs \in {newHandshake(v) : v \in Versions}
    /\ root = NewReStackTrie
    /\ calls = <<>>
    /\ status = ""
    /\ phase = "handshake"
    /\ rootEnc = <<>>
    /\ rootHash = <<>>
    /\ digest = <<>>
    /\ hashes = <<>>
    /\ NodeNew

\* werr := make(chan error, 1); go func() { ... }()
Call ==
    /\ hs.pc = "idle"
    /\ hs' = [hs EXCEPT !.pc = "ReadMsg", !.writer = "Send"]
    /\ UNCHANGED <<trieVars, nodeVars>>

\* the goroutine: werr <- Send(t, handshakeMsg, our).  The channel has room
\* for the one value, so the send on it does not block
Send(e) ==
    /\ hs.writer = "Send"
    /\ Len(hs.werr) < 1
    /\ hs' = [hs EXCEPT !.writer = "done", !.sent = e, !.werr = Append(@, e)]
    /\ UNCHANGED <<trieVars, nodeVars>>

\* msg, err := rw.ReadMsg()
ReadMsg(msg) ==
    /\ hs.pc = "ReadMsg"
    /\ hs' = [hs EXCEPT !.pc = "read", !.msg = msg]
    /\ UNCHANGED <<trieVars, nodeVars>>

\* doProtoHandshake that returns the read error without the receive
readNoJoin(r) ==
    IF r.err # "" THEN [hs EXCEPT !.pc = "returned", !.read = r, !.err = r.err]
    ELSE [hs EXCEPT !.pc = "<-werr", !.read = r]

\* the rest of readProtocolHandshake and the test of its error: both
\* branches go on to receive from werr
readJoin(r) == [hs EXCEPT !.pc = "<-werr", !.read = r]

ReadProtocolHandshake ==
    /\ hs.pc = "read"
    /\ hs' = readJoin(readProtocolHandshake(hs.msg))
    /\ UNCHANGED <<trieVars, nodeVars>>

\* doProtoHandshake that prefers the write error to the read error
returnWriteFirst(h, e) ==
    IF e # "" THEN [h EXCEPT !.err = "write error: " \o e]
    ELSE IF h.read.err # "" THEN [h EXCEPT !.err = h.read.err]
    ELSE [h EXCEPT !.their = h.read.their,
                   !.snappy = h.read.their >= snappyProtocolVersion]

\* what doProtoHandshake returns once it has received e from werr
returnAfter(h, e) ==
    IF h.read.err # "" THEN [h EXCEPT !.err = h.read.err]
    ELSE IF e # "" THEN [h EXCEPT !.err = "write error: " \o e]
    ELSE [h EXCEPT !.their = h.read.their,
                   !.snappy = h.read.their >= snappyProtocolVersion]

\* <-werr, in either branch, and the return
Receive ==
    /\ hs.pc = "<-werr"
    /\ Len(hs.werr) > 0
    /\ hs' = returnAfter([hs EXCEPT !.pc = "returned", !.werr = Tail(@)], Head(hs.werr))
    /\ UNCHANGED <<trieVars, nodeVars>>

HandshakeNext ==
    \/ Call
    \/ \E e \in SendErrors : Send(e)
    \/ \E msg \in Messages : ReadMsg(msg)
    \/ ReadProtocolHandshake
    \/ Receive

HandshakeSpec == HandshakeInit /\ [][HandshakeNext]_vars

(***************************************************************************)
(* The specification of the node: callers register lifecycles and call     *)
(* Start, Stop and Wait in any order.                                      *)
(***************************************************************************)
NodeInit ==
    /\ node \in {newNode(d) : d \in BOOLEAN}
    /\ p2p = [running |-> FALSE, starts |-> 0]
    /\ chans = <<>>
    /\ services = [k \in Kinds \cup {httpServers} |-> [starts |-> 0, stops |-> 0]]
    /\ waits = [w \in Waiters |-> [pc |-> "idle", stop |-> 0, running |-> FALSE]]
    /\ ret = returned("New", "")
    /\ root = NewReStackTrie
    /\ calls = <<>>
    /\ status = ""
    /\ phase = "node"
    /\ rootEnc = <<>>
    /\ rootHash = <<>>
    /\ digest = <<>>
    /\ hashes = <<>>
    /\ HandshakeNew

NodeNext ==
    \/ \E kind \in Kinds : RegisterLifecycle(kind)
    \/ Start
    \/ Stop
    \/ \E w \in Waiters : WaitCall(w)
    \/ \E w \in Waiters : WaitReceive(w)

NodeSpec == NodeInit /\ [][NodeNext]_vars

\* the scheduler runs a goroutine that can receive
NodeFairSpec == NodeSpec /\ \A w \in Waiters : WF_vars(WaitReceive(w))

(***************************************************************************)
(* The state machine: a caller that makes up to MaxCalls calls of          *)
(* TryUpdate, with any key and value, and then calls Hash.  A panic ends   *)
(* the run: status holds its message ("" while no call has panicked).      *)
(***************************************************************************)
Init ==
    /\ root = NewReStackTrie
    /\ calls = <<>>
    /\ status = ""
    /\ phase = "building"
    /\ rootEnc = <<>>
    /\ rootHash = <<>>
    /\ digest = <<>>
    /\ hashes = <<>>
    /\ NodeNew
    /\ HandshakeNew

\* TryUpdate that tests the value after the insert instead of before it
TryUpdateInsertFirst(key, value) ==
    /\ phase = "building"
    /\ status = ""
    /\ Len(calls) < MaxCalls
    /\ calls' = Append(calls, [key |-> key, value |-> value])
    /\ \E r \in {insert(root, SliceTo(keybytesToHex(key), 2 * Len(key)), value)} :
           /\ root' = r.st
           /\ status' = IF r.err # "" THEN r.err
                        ELSE IF Len(value) = 0 THEN "deletion not supported"
                        ELSE ""
    /\ UNCHANGED <<phase, rootEnc, rootHash, digest, hashes, nodeVars, hsVars>>

TryUpdate(key, value) ==
    /\ phase = "building"
    /\ status = ""
    /\ Len(calls) < MaxCalls
    /\ calls' = Append(calls, [key |-> key, value |-> value])
    /\ IF Len(value) = 0
       THEN /\ status' = "deletion not supported"
            /\ root' = root
       ELSE \E r \in {insert(root, SliceTo(keybytesToHex(key), 2 * Len(key)), value)} :
                /\ root' = r.st
                /\ status' = r.err
    /\ UNCHANGED <<phase, rootEnc, rootHash, digest, hashes, nodeVars, hsVars>>

Hash ==
    /\ phase = "building"
    /\ status = ""
    /\ \E r \in {hash(root)} :
           /\ root' = r.st
           /\ status' = r.err
           /\ rootEnc' = r.enc
           /\ rootHash' = r.bytes
           /\ digest' = IF r.err = "" THEN BytesToHash(r.bytes) ELSE <<>>
           /\ hashes' = Append(hashes, [calls |-> Len(calls), digest |-> digest'])
    /\ phase' = "done"
    /\ UNCHANGED <<calls, nodeVars, hsVars>>

Next ==
    \/ \E key \in Keys, value \in Values : TryUpdate(key, value)
    \/ Hash

Spec == Init /\ [][Next]_vars

(***************************************************************************)
(* The history of calls, as the claims read it.                            *)
(***************************************************************************)
\* the nibble key insert gets for the byte key of a call
Nibbles(key) == SliceTo(keybytesToHex(key), 2 * Len(key))

\* a is a prefix of b (or equal to it)
IsPrefix(a, b) == Len(a) <= Len(b) /\ SubSeq(b, 1, Len(a)) = a

\* a < b in the nibble-wise lexicographic order
NibLess(a, b) ==
    \/ Len(a) < Len(b) /\ IsPrefix(a, b)
    \/ \E i \in 1..Len(a) : /\ i <= Len(b)
                            /\ SubSeq(a, 1, i - 1) = SubSeq(b, 1, i - 1)
                            /\ a[i] < b[i]

\* the first n calls have strictly ascending keys, none a prefix of
\* another, and non-empty values
CorrectCalls(n) ==
    /\ \A i \in 1..n : calls[i].value # <<>>
    /\ \A i, j \in 1..n :
           i < j => /\ NibLess(Nibbles(calls[i].key), Nibbles(calls[j].key))
                    /\ ~IsPrefix(Nibbles(calls[i].key), Nibbles(calls[j].key))

\* every call so far was a correct one
Correct == CorrectCalls(Len(calls))

\* the (nibble key, value) pairs of the calls
Pairs == {[key |-> Nibbles(calls[i].key), val |-> calls[i].value] : i \in 1..Len(calls)}

(***************************************************************************)
(* The reference Merkle-Patricia trie over a set of (nibble key, value)    *)
(* pairs with prefix-free keys: canonical Hex-Prefix and RLP, a node under *)
(* 32 bytes embedded in its parent, any other referenced by its Keccak-256.*)
(***************************************************************************)
\* the big-endian bytes of n > 0
RECURSIVE BigEndian(_)
BigEndian(n) == IF n = 0 THEN <<>> ELSE BigEndian(n \div 256) \o <<n % 256>>

RLPString(bs) ==
    IF Len(bs) = 1 /\ bs[1] < 128 THEN bs
    ELSE IF Len(bs) <= 55 THEN <<128 + Len(bs)>> \o bs
    ELSE <<183 + Len(BigEndian(Len(bs)))>> \o BigEndian(Len(bs)) \o bs

RLPList(payload) ==
    IF Len(payload) <= 55 THEN <<192 + Len(payload)>> \o payload
    ELSE <<247 + Len(BigEndian(Len(payload)))>> \o BigEndian(Len(payload)) \o payload

\* the nibbles of K from position i on, two per byte
RECURSIVE PackNibbles(_, _)
PackNibbles(K, i) ==
    IF i > Len(K) THEN <<>>
    ELSE <<16 * K[i] + K[i + 1]>> \o PackNibbles(K, i + 2)

\* Hex-Prefix
HP(K, terminator) ==
    LET flag == IF terminator THEN 32 ELSE 0
    IN  IF Len(K) % 2 = 1 THEN <<flag + 16 + K[1]>> \o PackNibbles(K, 2)
        ELSE <<flag>> \o PackNibbles(K, 1)

\* the length of the longest common prefix of the keys of ps, from depth d
RECURSIVE CommonLen(_, _, _)
CommonLen(ps, d, n) ==
    IF /\ \A p \in ps : Len(p.key) > d + n
       /\ \A p, q \in ps : p.key[d + n + 1] = q.key[d + n + 1]
    THEN CommonLen(ps, d, n + 1)
    ELSE n

RECURSIVE RefEncode(_, _)
RECURSIVE RefBranchItems(_, _, _)

\* the reference to the node over ps at depth d, as its parent holds it
RefReference(ps, d) ==
    LET enc == RefEncode(ps, d)
    IN  IF Len(enc) < 32 THEN enc ELSE RLPString(Keccak256(enc))

\* the items of the branch over ps at depth d, from slot i on
RefBranchItems(ps, d, i) ==
    IF i > 15 THEN <<128>>
    ELSE LET sub == {p \in ps : p.key[d + 1] = i}
         IN  (IF sub = {} THEN <<128>> ELSE RefReference(sub, d + 1))
             \o RefBranchItems(ps, d, i + 1)

\* the encoding of the node over the pairs ps (not empty) at depth d
RefEncode(ps, d) ==
    IF Cardinality(ps) = 1
    THEN LET p == CHOOSE q \in ps : TRUE
         IN  RLPList(RLPString(HP(SliceFrom(p.key, d), TRUE)) \o RLPString(p.val))
    ELSE LET n == CommonLen(ps, d, 0)
             p == CHOOSE q \in ps : TRUE
         IN  IF n > 0
             THEN RLPList(RLPString(HP(SubSeq(p.key, d + 1, d + n), FALSE))
                          \o RefReference(ps, d + n))
             ELSE RLPList(RefBranchItems(ps, d, 0))

\* the root of the reference trie
RefRoot(ps) == IF ps = {} THEN Keccak256(<<128>>) ELSE Keccak256(RefEncode(ps, 0))

(***************************************************************************)
(* Readings of the trie.                                                   *)
(***************************************************************************)
\* the first n calls have strictly ascending keys
AscendingCalls(n) ==
    \A i, j \in 1..n :
        i < j => NibLess(Nibbles(calls[i].key), Nibbles(calls[j].key))

\* every call has a non-empty value, and the keys are distinct and of one
\* length
EqualLengthCalls ==
    /\ \A i \in 1..Len(calls) : calls[i].value # <<>>
    /\ \A i, j \in 1..Len(calls) :
           /\ Len(calls[i].key) = Len(calls[j].key)
           /\ i # j => calls[i].key # calls[j].key

\* hash was called and returned
Hashed == phase = "done" /\ status = ""

\* the calls so far returned, and Hash was not called yet: the trie is as
\* the last TryUpdate left it
Built == phase = "building" /\ status = "" /\ calls # <<>>

\* on the path of key from st down to its leaf, every child of a branch in
\* a slot below the slot of key is hashed
RECURSIVE PathLeftHashed(_, _)
PathLeftHashed(st, key) ==
    IF st.nodeType = branchNode
    THEN /\ st.keyOffset < Len(key)
         /\ key[st.keyOffset + 1] \in DOMAIN st.children
         /\ \A i \in DOMAIN st.children :
                i < key[st.keyOffset + 1] => st.children[i].nodeType = hashedNode
         /\ PathLeftHashed(st.children[key[st.keyOffset + 1]], key)
    ELSE IF st.nodeType = extNode
    THEN /\ 0 \in DOMAIN st.children
         /\ PathLeftHashed(st.children[0], key)
    ELSE st.nodeType = leafNode

\* the number of nodes of the subtree of st that are not hashed
RECURSIVE Resident(_)
RECURSIVE ResidentBelow(_, _)
ResidentBelow(st, i) ==
    IF i > 15 THEN 0
    ELSE (IF i \in DOMAIN st.children THEN Resident(st.children[i]) ELSE 0)
         + ResidentBelow(st, i + 1)

Resident(st) == (IF st.nodeType = hashedNode THEN 0 ELSE 1) + ResidentBelow(st, 0)

\* the nodes of the subtree of st that are not hashed form one path down
\* from st: nothing hangs below a hashed node, and a node that is not
\* hashed has at most one child that is not hashed
RECURSIVE OnePath(_)
OnePath(st) ==
    /\ st.nodeType = hashedNode => Resident(st) = 0
    /\ Cardinality({i \in DOMAIN st.children :
                        st.children[i].nodeType # hashedNode}) <= 1
    /\ \A i \in DOMAIN st.children : OnePath(st.children[i])

\* the nibble length of the longest key of the calls
RECURSIVE MaxNibbles(_)
MaxNibbles(n) ==
    IF n = 0 THEN 0
    ELSE LET m == MaxNibbles(n - 1)
             l == 2 * Len(calls[n].key)
         IN  IF l > m THEN l ELSE m

(***************************************************************************)
(* The claims.                                                             *)
(***************************************************************************)
\* the last call made
LastCall == calls[Len(calls)]

\* C1: for distinct pairs with non-empty values fed to TryUpdate in
\* ascending key order on a fresh trie, Hash() equals the root of the
\* reference Merkle-Patricia trie built from the same pairs.
C1_RootAgreement == (Hashed /\ Correct) => digest = RefRoot(Pairs)

\* C2: Hash() on a trie returned by NewReStackTrie, with no update in
\* between, returns the empty-root constant, Keccak-256 of the byte 0x80,
\* and encodes no node.
C2_EmptyTrie ==
    (phase = "done" /\ calls = <<>>) =>
        /\ status = ""
        /\ digest = Keccak256(<<128>>)
        /\ rootEnc = <<>>

C2_Witness == phase = "done" /\ calls = <<>> /\ Len(digest) = 32

\* C3: for every non-empty trie Hash() is the Keccak-256 of the root
\* encoding, also when that encoding is shorter than 32 bytes (never the
\* raw encoding padded or truncated to 32 bytes).
C3_FinalHash == (Hashed /\ calls # <<>>) => digest = Keccak256(rootEnc)

\* C4: after one TryUpdate(empty key, value) on a fresh trie the root is a
\* leaf with an empty nibble key, its encoding is the RLP list
\* [HP([], leaf), value], with the Hex-Prefix byte 0x20 before the value,
\* and Hash() is the Keccak-256 of that list.
C4_SingleLeafEmptyKey ==
    (phase = "done" /\ Len(calls) = 1 /\ calls[1].key = <<>> /\ calls[1].value # <<>>) =>
        /\ status = ""
        /\ root.nodeType = leafNode
        /\ root.key = <<>>
        /\ rootEnc = RLPList(RLPString(<<32>>) \o RLPString(calls[1].value))
        /\ digest = Keccak256(rootEnc)

\* the two calls made have keys that share all nibbles but the last, in
\* ascending order, and one-byte values below 0x80
SmallSplitCalls ==
    /\ Len(calls) = 2
    /\ Len(calls[1].key) = Len(calls[2].key)
    /\ Len(calls[1].key) > 0
    /\ LET k1 == Nibbles(calls[1].key)
           k2 == Nibbles(calls[2].key)
       IN  /\ SliceTo(k1, Len(k1) - 1) = SliceTo(k2, Len(k2) - 1)
           /\ k1[Len(k1)] < k2[Len(k2)]
    /\ \A i \in 1..2 : Len(calls[i].value) = 1 /\ calls[i].value[1] < 128

\* C5: two keys that share all nibbles but the last, inserted in ascending
\* order with one-byte values below 0x80: hash() returns the raw encoding
\* of the root, under 32 bytes, and its Keccak-256 is the root of the
\* reference trie built from the same two pairs.
C5_SmallRLPSplit ==
    (SmallSplitCalls /\ phase = "done") =>
        /\ status = ""
        /\ rootHash = rootEnc
        /\ Len(rootHash) < 32
        /\ Keccak256(rootHash) = RefRoot(Pairs)

\* C6: after every TryUpdate of a strictly ascending, prefix-free key
\* sequence, at every branch on the path of the last inserted key each
\* non-null child in a slot below the slot of that key is hashed.
C6_LeftCollapsed == (Built /\ Correct) => PathLeftHashed(root, Nibbles(LastCall.key))

\* keys with three different first nibbles were inserted: the root is a
\* branch with three children, the first two of them hashed
C6_Witness ==
    /\ Built
    /\ Correct
    /\ root.nodeType = branchNode
    /\ Cardinality(DOMAIN root.children) = 3
    /\ Cardinality({i \in DOMAIN root.children :
                        root.children[i].nodeType = hashedNode}) = 2

\* C7: after every TryUpdate of a strictly ascending, prefix-free key
\* sequence, the nodes that are not hashed form one path down from the
\* root, with none below a hashed node or beside the path, so there are at
\* most (nibble length of the longest key) + 1 of them.
C7_SingleResidentPath ==
    (Built /\ Correct) =>
        /\ OnePath(root)
        /\ Resident(root) <= MaxNibbles(Len(calls)) + 1

\* C8: TryUpdate with an empty value panics, in every trie state, and
\* leaves the trie as it was before the call.
C8_EmptyValuePanics ==
    [][(calls' # calls /\ calls'[Len(calls')].value = <<>>) =>
          (status' = "deletion not supported" /\ root' = root)]_vars

\* an empty value was refused on a trie that holds several keys
C8_Witness ==
    /\ status = "deletion not supported"
    /\ LastCall.value = <<>>
    /\ root.nodeType \in {branchNode, extNode}

\* the last call repeats the key of an earlier call, after ascending calls
\* with non-empty values
DuplicateCall ==
    /\ Len(calls) >= 2
    /\ CorrectCalls(Len(calls) - 1)
    /\ LastCall.value # <<>>
    /\ \E i \in 1..(Len(calls) - 1) : calls[i].key = LastCall.key

\* C9: on a trie built by an ascending sequence of updates, a TryUpdate
\* whose key equals a key already inserted, the last one or an earlier
\* one, panics instead of returning normally.
C9_DuplicateKeyFails == DuplicateCall => status # ""

\* the key repeated is not the last one inserted but an earlier one, which
\* was hashed since
C9_Witness ==
    /\ Len(calls) = 3
    /\ DuplicateCall
    /\ calls[1].key = calls[3].key
    /\ status = "trying to insert into hash"

\* C10 as stated: with distinct keys of one length and non-empty values,
\* in any order, every call and the final Hash() return normally.
C10_OutOfOrderNoPanic == EqualLengthCalls => status = ""

\* C10 as amended: with distinct keys of one length and non-empty values,
\* in any order, a call either returns normally or stops with the panic
\* "trying to insert into hash" of insert, and no other failure happens;
\* when every call returned, Hash() returns normally.
C10_OutOfOrderPanicsOnlyOnHashed ==
    EqualLengthCalls =>
        /\ status \in {"", "trying to insert into hash"}
        /\ phase = "done" => status = ""

\* keys out of order, the last one leading into a hashed node
C10_Witness ==
    /\ EqualLengthCalls
    /\ ~AscendingCalls(Len(calls))
    /\ status = "trying to insert into hash"

\* C11: for every strictly ascending sequence of distinct keys, none a
\* prefix of another, with non-empty values, no TryUpdate reaches a hashed
\* node, reports an existing key or indexes past the end of a key: every
\* call returns normally.
C11_CorrectCallersNeverFail == (phase = "building" /\ Correct) => status = ""

\* three correct calls that went through an extension, a branch and a leaf
C11_Witness ==
    /\ Built
    /\ Correct
    /\ Len(calls) = MaxCalls
    /\ root.nodeType = extNode

(***************************************************************************)
(* Readings of the encoder claims: the nodes of the trie, and the item a   *)
(* child contributes to the payload of its parent.                         *)
(***************************************************************************)

\* the nodes of the subtree of st
RECURSIVE Nodes(_)
Nodes(st) == {st} \cup UNION {Nodes(st.children[i]) : i \in DOMAIN st.children}

\* the nodes of the subtree of st that hash() still visits: it returns at a
\* hashed node
RECURSIVE Live(_)
Live(st) ==
    IF st.nodeType = hashedNode THEN {st}
    ELSE {st} \cup UNION {Live(st.children[i]) : i \in DOMAIN st.children}

\* the sequence s ends with the sequence t
EndsWith(s, t) == Len(t) <= Len(s) /\ SubSeq(s, Len(s) - Len(t) + 1, Len(s)) = t

\* the item of a child whose hash() returned b: its encoding as it is when
\* shorter than 32 bytes, else its Keccak-256 as a 32-byte string
ChildReference(b) == IF Len(b) < 32 THEN b ELSE <<160>> \o b

\* the 17 items of the branch st from slot i on
RECURSIVE BranchItems(_, _)
BranchItems(st, i) ==
    IF i > 15 THEN <<128>>
    ELSE (IF i \in DOMAIN st.children
          THEN ChildReference(hash(st.children[i]).bytes)
          ELSE <<128>>) \o BranchItems(st, i + 1)

\* the payload of the encoding of st holds the reference of each child
EmbedsChildren(st) ==
    IF st.nodeType = branchNode
    THEN EndsWith(hash(st).enc, BranchItems(st, 0))
    ELSE IF st.nodeType = extNode /\ 0 \in DOMAIN st.children
    THEN LET ref == ChildReference(hash(st.children[0]).bytes)
         IN  /\ EndsWith(hash(st).enc, ref)
             /\ Len(hash(st).enc) = Len(RLPList(RLPString(HP(st.key, FALSE)) \o ref))
    ELSE TRUE

\* C12: for every child of a branch or extension, the payload of the parent
\* holds the child's encoding verbatim, without a byte-string header, when
\* it is shorter than 32 bytes, and 0xa0 followed by its 32-byte Keccak-256
\* when it is 32 bytes or longer.
C12_EmbedThreshold ==
    (Built /\ Correct) => \A st \in Live(root) : EmbedsChildren(st)

(***************************************************************************)
(* The two encoders on their own.  A call is the key (in nibbles), the     *)
(* value and the leaf flag; hash() hands a leaf or an extension to         *)
(* rawHPRLP when len(key)/2 + 1 + len(val) < 29, as TestRawHPRLP does, and *)
(* to writeHPRLP otherwise.                                                *)
(***************************************************************************)

\* a value of n bytes
ValueOfLen(n) == [i \in 1..n |-> (100 + i) % 256]

EncKeys == {<<>>, <<1>>, <<15>>, <<0, 1>>, <<1, 2>>, <<1, 2, 3>>, <<15, 0, 1, 2>>}

EncValues ==
    {<<98>>, <<200>>, <<2, 3>>, ValueOfLen(28), LongValue,
     ValueOfLen(54), ValueOfLen(55), ValueOfLen(56), ValueOfLen(57),
     ValueOfLen(252), ValueOfLen(253), ValueOfLen(255), ValueOfLen(256)}

\* what an extension passes for val: the two bytes of TestRawHPRLP, or the
\* 32-byte hash of its child
EncChildren == {<<2, 3>>, Keccak256(<<1>>)}

EncCalls ==
    {[key |-> k, value |-> v, leaf |-> TRUE] : k \in EncKeys, v \in EncValues}
    \cup {[key |-> k, value |-> v, leaf |-> FALSE] :
              k \in EncKeys \ {<<>>}, v \in EncChildren}

\* the condition on which hash() takes the small path
SmallPath(c) == (Len(c.key) \div 2) + 1 + Len(c.value) < 29

EncInit ==
    /\ root = NewReStackTrie
    /\ calls \in {<<c>> : c \in EncCalls}
    /\ status = ""
    /\ phase = "encoding"
    /\ rootEnc = <<>>
    /\ rootHash = <<>>
    /\ digest = <<>>
    /\ hashes = <<>>
    /\ NodeNew
    /\ HandshakeNew

\* rawHPRLP(key, val, leaf): rootEnc is the slice it returns
RawHPRLP ==
    /\ phase = "encoding"
    /\ SmallPath(calls[1])
    /\ \E r \in {rawHPRLP(calls[1].key, calls[1].value, calls[1].leaf)} :
           /\ rootEnc' = r.bytes
           /\ status' = r.err
    /\ phase' = "raw"
    /\ UNCHANGED <<root, calls, rootHash, digest, hashes, nodeVars, hsVars>>

\* writeHPRLP(d, key, val, leaf): rootEnc is what it wrote to the sponge,
\* rootHash the sum of the sponge
WriteHPRLP ==
    /\ phase = "encoding"
    /\ ~SmallPath(calls[1])
    /\ \E r \in {writeHPRLP(calls[1].key, calls[1].value, calls[1].leaf)} :
           /\ rootEnc' = r.bytes
           /\ rootHash' = Keccak256(r.bytes)
           /\ status' = r.err
    /\ phase' = "written"
    /\ UNCHANGED <<root, calls, digest, hashes, nodeVars, hsVars>>

\* the leaf with the key and the value of the call c
CallLeaf(c) ==
    [NewReStackTrie EXCEPT !.nodeType = leafNode, !.key = c.key, !.val = c.value]

\* the collapse of that leaf, as insert collapses the original leaf of a
\* split: val = hash(); nodeType = hashedNode; key = nil.  root is the node
\* it leaves, rootEnc the encoding hash() made
Collapse ==
    /\ phase = "encoding"
    /\ calls[1].leaf
    /\ \E r \in {hash(CallLeaf(calls[1]))} :
           /\ root' = collapsed(r).st
           /\ rootEnc' = r.enc
           /\ status' = r.err
    /\ phase' = "collapsed"
    /\ UNCHANGED <<calls, rootHash, digest, hashes, nodeVars, hsVars>>

EncNext == RawHPRLP \/ WriteHPRLP \/ Collapse

EncSpec == EncInit /\ [][EncNext]_vars

\* an encoder returned
Encoded == phase \in {"raw", "written"} /\ status = ""

\* C13: for every leaf (any nibble key, the empty and the one-nibble keys
\* included, any non-empty value), the bytes produced, returned on the
\* small path or written to the hasher on the streaming path, are exactly
\* the RLP list [HP(key, leaf = true), value], each item with its RLP string
\* header.
C13_LeafEncoding ==
    (Encoded /\ calls[1].leaf)
        => rootEnc = RLPList(RLPString(HP(calls[1].key, TRUE))
                             \o RLPString(calls[1].value))

\* the encoding of the extension st is the list of its Hex-Prefix key and
\* the reference of its child
ExtensionEncoded(st) ==
    hash(st).enc = RLPList(RLPString(HP(st.key, FALSE))
                           \o ChildReference(hash(st.children[0]).bytes))

\* C14: for every extension the bytes produced are exactly the RLP list
\* [HP(key, leaf = false), child_reference]: the Hex-Prefix bytes pack every
\* nibble of the key, none lost or overwritten, and the child reference is
\* the child's encoding when shorter than 32 bytes, else its 32-byte hash as
\* a byte string.
C14_ExtensionEncoding ==
    (Built /\ Correct)
        => \A st \in Live(root) : st.nodeType = extNode => ExtensionEncoded(st)

\* the encoding of the branch st is the list of its 17 items
BranchEncoded(st) == hash(st).enc = RLPList(BranchItems(st, 0))

\* C15: every branch is encoded as an RLP list of exactly 17 items in slot
\* order 0..15 followed by the value slot: each non-null child contributes
\* its child reference, each null child the empty string 0x80, the 17th
\* item is always 0x80, and the list header states the exact length of the
\* payload.
C15_BranchEncoding ==
    (Built /\ Correct)
        => \A st \in Live(root) : st.nodeType = branchNode => BranchEncoded(st)

\* the nibbles of the bytes bs from position i on, two per byte, high first
RECURSIVE UnpackNibbles(_, _)
UnpackNibbles(bs, i) ==
    IF i > Len(bs) THEN <<>>
    ELSE <<bs[i] \div 16, bs[i] % 16>> \o UnpackNibbles(bs, i + 1)

\* Hex-Prefix decoding: bit 0x20 of the first byte is the leaf flag, bit
\* 0x10 says that the key is odd and its first nibble is the low half of
\* the first byte; no byte at all decodes to nothing
HPDecode(bs) ==
    IF bs = <<>> THEN [key |-> <<>>, leaf |-> FALSE, ok |-> FALSE]
    ELSE [key |-> (IF (bs[1] \div 16) % 2 = 1 THEN <<bs[1] % 16>> ELSE <<>>)
                  \o UnpackNibbles(bs, 2),
          leaf |-> (bs[1] \div 32) % 2 = 1,
          ok |-> TRUE]

\* the number of bytes at the end of the encoding of st that hold its value
\* or child: the header the encoder wrote, if any, and the bytes themselves
TailLen(st) ==
    IF st.nodeType = leafNode
    THEN Len(st.val) + writeValHeaderLen(st.val)
    ELSE IF (Len(st.key) \div 2) + 1 + Len(hash(st.children[0]).bytes) < 29
    THEN Len(hash(st.children[0]).bytes)
    ELSE Len(hash(st.children[0]).bytes) + 1

\* the Hex-Prefix bytes in the encoding enc of a node with the key key: the
\* 1 + len(key)/2 bytes before the last tail bytes
HPField(enc, key, tail) ==
    IF Len(enc) - tail - (Len(key) \div 2) < 1 THEN <<>>
    ELSE SubSeq(enc, Len(enc) - tail - (Len(key) \div 2), Len(enc) - tail)

\* decoding the Hex-Prefix bytes of the encoding of st gives its key and
\* its kind back
HPRoundTrip(st) ==
    HPDecode(HPField(hash(st).enc, st.key, TailLen(st)))
        = [key |-> st.key, leaf |-> st.nodeType = leafNode, ok |-> TRUE]

\* C16: for every leaf or extension the trie generates, decoding the
\* Hex-Prefix bytes it emitted recovers exactly the node's nibble key and
\* its leaf/extension flag, on the small leaf path, the small extension path
\* and the streaming path alike.
C16_HexPrefixRoundTrip ==
    (Built /\ Correct)
        => \A st \in Live(root) :
               st.nodeType \in {leafNode, extNode} => HPRoundTrip(st)

\* the encoding enc of the call c ends with the value (or child) as an RLP
\* byte string and, before it, the Hex-Prefix key as an RLP byte string; for
\* the empty key rawHPRLP has no key field
StringHeaders(enc, c) ==
    /\ EndsWith(enc, RLPString(c.value))
    /\ c.key # <<>>
           => EndsWith(enc, RLPString(HP(c.key, c.leaf)) \o RLPString(c.value))

\* C17: every byte string the encoder emits, the Hex-Prefix key field and
\* the value or child field of a leaf or extension, is written as itself
\* when it is a single byte below 0x80, with the header 0x80 + L when its
\* length L is at most 55, and with 0xb7 + bytelen(L) followed by the
\* big-endian length when L is 56 or more; in particular a 56-byte value
\* gets the header 0xb8 0x38.
C17_StringHeaders == Encoded => StringHeaders(rootEnc, calls[1])

\* enc is an RLP list: a list header of one to three bytes that states the
\* exact number of the bytes after it
ListHeader(enc) ==
    \E n \in 1..3 : n <= Len(enc) /\ enc = RLPList(SubSeq(enc, n + 1, Len(enc)))

\* C18: every node encoding starts with 0xc0 + L when its payload length L
\* is at most 55, and with 0xf7 + bytelen(L) followed by the big-endian
\* length when L is 56 or more, L being the exact number of payload bytes;
\* in particular a payload of exactly 56 bytes gets the header 0xf8 0x38.
C18_ListHeaders == Encoded => ListHeader(rootEnc)

\* the layout TestRawHPRLP expects: the number of the bytes that follow,
\* the length of the key field when the key has two nibbles, the Hex-Prefix
\* bytes, the length of the value, the value
TestLayout(c) ==
    <<(IF Len(c.key) > 1 THEN 1 ELSE 0) + Len(HP(c.key, c.leaf)) + 1 + Len(c.value)>>
    \o (IF Len(c.key) > 1 THEN <<Len(HP(c.key, c.leaf))>> ELSE <<>>)
    \o HP(c.key, c.leaf)
    \o <<Len(c.value)>> \o c.value

\* the calls of TestRawHPRLP: a two-byte value, a key of one or two nibbles
TestCall(c) == Len(c.value) = 2 /\ Len(c.key) \in {1, 2}

\* C19: for a two-byte value v, rawHPRLP returns one byte equal to the
\* number of bytes that follow, then (for a two-nibble key) one byte equal
\* to the length of the key field, then the Hex-Prefix bytes (32 leaf even,
\* 48 + first nibble leaf odd, 0 extension even, 16 + first nibble extension
\* odd), then one byte len(v), then v: key [0,1], value [2,3], leaf gives
\* [6,2,32,1,2,2,3]; key [1], value [2,3], extension gives [4,17,2,2,3].
C19_RawHPRLPLayout ==
    (phase = "raw" /\ status = "" /\ TestCall(calls[1]))
        => rootEnc = TestLayout(calls[1])

\* C20: whenever insert turns a node into a hashed node (the left sibling
\* in a branch, the original leaf in a leaf split, the pre-existing subtree
\* in an extension split), that hashed node afterwards has all 16 child
\* slots null and an empty key, so no node of the collapsed subtree stays
\* reachable from the root.
C20_CollapseReleases ==
    (Built /\ Correct)
        => \A st \in Nodes(root) :
               st.nodeType = hashedNode
                   => (DOMAIN st.children = {} /\ st.key = <<>>)

\* C21: for every node that is collapsed, the value of the hashed node is
\* the node's encoding itself exactly when that encoding is shorter than 32
\* bytes, and the 32-byte Keccak-256 of the encoding exactly when it is 32
\* bytes or longer: no node with an encoding of 31 bytes or fewer is
\* replaced by a hash.
C21_EmbedOrHash ==
    (phase = "collapsed" /\ status = "")
        => /\ root.nodeType = hashedNode
           /\ root.val = IF Len(rootEnc) < 32 THEN rootEnc ELSE Keccak256(rootEnc)

\* C22: for every nibble key, every non-empty value and either leaf flag
\* for which rawHPRLP is applicable (len(key)/2 + 1 + len(val) < 29), the
\* bytes rawHPRLP returns are identical to the bytes writeHPRLP writes for
\* the same arguments.
C22_EncodersAgree ==
    (phase = "raw" /\ status = "")
        => rootEnc = writeHPRLP(calls[1].key, calls[1].value, calls[1].leaf).bytes

(***************************************************************************)
(* Readings of the claims on insert: the nodes an insert goes through.     *)
(***************************************************************************)

\* the nibble key of the call a TryUpdate step has just recorded
InsertedKey == Nibbles(calls'[Len(calls')].key)

\* a TryUpdate step whose insert returned
Inserted == calls' # calls /\ status' = ""

\* the pairs <<o, n>> of a node o that insert(key) went through, from o
\* down, and the node n the insert left in its place; a child that a branch
\* creates is paired from the empty node it starts as
RECURSIVE Descent(_, _, _)
Descent(o, n, key) ==
    {<<o, n>>} \cup
    IF o.nodeType = branchNode /\ o.keyOffset < Len(key)
    THEN IF key[o.keyOffset + 1] \notin DOMAIN n.children THEN {}
         ELSE IF key[o.keyOffset + 1] \in DOMAIN o.children
         THEN Descent(o.children[key[o.keyOffset + 1]],
                      n.children[key[o.keyOffset + 1]], key)
         ELSE {<<[NewReStackTrie EXCEPT !.keyOffset = o.keyOffset + 1],
                 n.children[key[o.keyOffset + 1]]>>}
    ELSE IF /\ o.nodeType = extNode
            /\ getDiffIndex(o, key) = Len(o.key)
            /\ 0 \in DOMAIN o.children
            /\ 0 \in DOMAIN n.children
    THEN Descent(o.children[0], n.children[0], key)
    ELSE {}

\* the nearest non-nil slot from i down if it is not hashed, else -1
nearestIfLive(children, i) ==
    IF nearestLeft(children, i) >= 0
       /\ children[nearestLeft(children, i)].nodeType # hashedNode
    THEN nearestLeft(children, i)
    ELSE -1

\* the insert into slot idx that made the branch n of the branch o hashed
\* the sibling in slot j (if j is a slot) and left every other sibling as
\* it was
Finalized(o, n, idx, j) ==
    /\ DOMAIN n.children = DOMAIN o.children \cup {idx}
    /\ \A k \in DOMAIN o.children \ {idx, j} : n.children[k] = o.children[k]
    /\ j >= 0 => /\ n.children[j].nodeType = hashedNode
                 /\ n.children[j].val = hash(o.children[j]).bytes

\* C23 as stated: after an insert that descends into slot i of a branch, in
\* any reachable branch state, the nearest sibling below i that is non-null
\* and not hashed has become hashed with its encoded form as value, and
\* every other sibling slot is unchanged.
C23_NearestLiveFinalized ==
    [][Inserted =>
          \A pr \in Descent(root, root', InsertedKey) :
              pr[1].nodeType = branchNode
                  => Finalized(pr[1], pr[2], InsertedKey[pr[1].keyOffset + 1],
                               nearestLive(pr[1].children,
                                           InsertedKey[pr[1].keyOffset + 1] - 1))]_vars

\* C23, amended: after an insert that descends into slot i of a branch, the
\* nearest non-null sibling below i, if it is not hashed, has become hashed
\* with its encoded form as value; if it is hashed already no sibling is
\* collapsed; every other sibling slot is unchanged.
C23_NearestFinalized ==
    [][Inserted =>
          \A pr \in Descent(root, root', InsertedKey) :
              pr[1].nodeType = branchNode
                  => Finalized(pr[1], pr[2], InsertedKey[pr[1].keyOffset + 1],
                               nearestIfLive(pr[1].children,
                                             InsertedKey[pr[1].keyOffset + 1] - 1))]_vars

\* an insert went into a branch whose nearest sibling on the left was
\* hashed already while one further left was not, and is still not
C23_Witness ==
    /\ Built
    /\ root.nodeType = branchNode
    /\ \E i, j, k \in DOMAIN root.children :
           /\ i < j /\ j < k
           /\ root.children[i].nodeType # hashedNode
           /\ root.children[j].nodeType = hashedNode
           /\ k = Nibbles(LastCall.key)[1]

\* the number of leading nibbles, from i on, that the stored key a shares
\* with the inserted key b from offset d
RECURSIVE SharedFrom(_, _, _, _)
SharedFrom(a, b, d, i) ==
    IF i < Len(a) /\ d + i < Len(b) /\ a[i + 1] = b[d + i + 1]
    THEN SharedFrom(a, b, d, i + 1)
    ELSE i

\* the value of the call a TryUpdate step has just recorded
InsertedValue == calls'[Len(calls')].value

\* p is the branch of the split of the leaf o at diff by the insert of
\* (key, value): two children, the original leaf hashed and the new leaf
LeafSplitBranch(p, o, key, value, diff) ==
    /\ p.nodeType = branchNode
    /\ o.key[diff + 1] # key[o.keyOffset + diff + 1]
    /\ DOMAIN p.children = {o.key[diff + 1], key[o.keyOffset + diff + 1]}
    /\ p.children[o.key[diff + 1]].nodeType = hashedNode
    /\ p.children[o.key[diff + 1]].val =
           hash([NewReStackTrie EXCEPT !.nodeType = leafNode,
                                       !.key = SubSeq(o.key, diff + 2, Len(o.key)),
                                       !.val = o.val]).bytes
    /\ p.children[key[o.keyOffset + diff + 1]].nodeType = leafNode
    /\ p.children[key[o.keyOffset + diff + 1]].key =
           SubSeq(key, o.keyOffset + diff + 2, Len(key))
    /\ p.children[key[o.keyOffset + diff + 1]].val = value

\* n is what the split at diff made of the leaf o
LeafSplit(o, n, key, value, diff) ==
    IF diff = 0 THEN LeafSplitBranch(n, o, key, value, diff)
    ELSE /\ n.nodeType = extNode
         /\ n.key = SubSeq(o.key, 1, diff)
         /\ DOMAIN n.children = {0}
         /\ LeafSplitBranch(n.children[0], o, key, value, diff)

\* C24: inserting key k into a leaf at depth d whose stored key shares
\* exactly diff < len(key) leading nibbles with k turns the node into a
\* branch when diff = 0 and otherwise into an extension with key
\* key[..diff] whose only child is a new branch; that branch has exactly
\* two non-null children: at nibble key[diff] the original leaf (suffix
\* key[diff+1..], original value) collapsed to hashed, and at nibble
\* k[d+diff] a new leaf with suffix k[d+diff+1..] and the new value.
C24_LeafSplit ==
    [][Inserted =>
          \A pr \in Descent(root, root', InsertedKey) :
              (/\ pr[1].nodeType = leafNode
               /\ SharedFrom(pr[1].key, InsertedKey, pr[1].keyOffset, 0) < Len(pr[1].key))
                  => LeafSplit(pr[1], pr[2], InsertedKey, InsertedValue,
                               SharedFrom(pr[1].key, InsertedKey, pr[1].keyOffset, 0))]_vars

\* two keys that share three leading nibbles were inserted: the root leaf
\* was split into an extension of those three nibbles over a branch
C24_Witness ==
    /\ Built
    /\ Len(calls) = 2
    /\ root.nodeType = extNode
    /\ Len(root.key) = 3
    /\ Cardinality(DOMAIN root.children[0].children) = 2

\* the pre-existing subtree of the extension o split at diff: its child, or
\* a shorter extension over its child
PreExisting(o, diff) ==
    IF diff = Len(o.key) - 1 THEN o.children[0]
    ELSE [NewReStackTrie EXCEPT !.nodeType = extNode,
                                !.key = SubSeq(o.key, diff + 2, Len(o.key)),
                                !.children = SetChild(NoChildren, 0, o.children[0])]

\* p is the branch of the split of the extension o at diff by the insert of
\* (key, value): two children, the pre-existing subtree hashed and a leaf
ExtSplitBranch(p, o, key, value, diff) ==
    /\ p.nodeType = branchNode
    /\ o.key[diff + 1] # key[o.keyOffset + diff + 1]
    /\ DOMAIN p.children = {o.key[diff + 1], key[o.keyOffset + diff + 1]}
    /\ p.children[o.key[diff + 1]].nodeType = hashedNode
    /\ p.children[o.key[diff + 1]].val = hash(PreExisting(o, diff)).bytes
    /\ p.children[key[o.keyOffset + diff + 1]].nodeType = leafNode
    /\ p.children[key[o.keyOffset + diff + 1]].key =
           SubSeq(key, o.keyOffset + diff + 2, Len(key))
    /\ p.children[key[o.keyOffset + diff + 1]].val = value

\* n is what the insert of (key, value) made of the extension o
ExtSplit(o, n, key, value, diff) ==
    IF diff = Len(o.key)
    THEN /\ n.nodeType = extNode
         /\ n.key = o.key
         /\ n.keyOffset = o.keyOffset
         /\ n.val = o.val
         /\ DOMAIN n.children = DOMAIN o.children
    ELSE IF diff = 0 THEN ExtSplitBranch(n, o, key, value, diff)
    ELSE /\ n.nodeType = extNode
         /\ n.key = SubSeq(o.key, 1, diff)
         /\ DOMAIN n.children = {0}
         /\ ExtSplitBranch(n.children[0], o, key, value, diff)

\* C25: inserting key k into an extension at depth d whose key shares
\* diff < len(key) leading nibbles with k places, at nibble key[diff] of the
\* resulting branch, the pre-existing subtree collapsed to hashed (the old
\* child itself when diff = len(key)-1, otherwise a shorter extension with
\* key key[diff+1..] over the old child), and at nibble k[d+diff] a fresh
\* leaf with suffix k[d+diff+1..]; the node becomes that branch when
\* diff = 0 and otherwise stays an extension with key key[..diff] over the
\* branch; if diff = len(key) the insert only descends into the child and
\* leaves the extension unchanged.
C25_ExtSplit ==
    [][Inserted =>
          \A pr \in Descent(root, root', InsertedKey) :
              pr[1].nodeType = extNode
                  => ExtSplit(pr[1], pr[2], InsertedKey, InsertedValue,
                              SharedFrom(pr[1].key, InsertedKey, pr[1].keyOffset, 0))]_vars

\* two keys that share three leading nibbles, then a key that shares one
\* with them: the root extension of three nibbles was split after its
\* first one, and is now an extension of one nibble over the new branch
C25_Witness ==
    /\ Built
    /\ Len(calls) = 3
    /\ SharedFrom(Nibbles(calls[1].key), Nibbles(calls[2].key), 0, 0) = 3
    /\ root.nodeType = extNode
    /\ Len(root.key) = 1
    /\ Cardinality(DOMAIN root.children[0].children) = 2

\* every node of the subtree of st that is not hashed has the key offset
\* depth, the number of nibbles consumed above it, and every leaf of it
\* stores the key of a call from its key offset to the end
RECURSIVE OffsetsFrom(_, _)
OffsetsFrom(st, depth) ==
    \/ st.nodeType = hashedNode
    \/ /\ st.keyOffset = depth
       /\ st.nodeType = leafNode
              => \E i \in 1..Len(calls) :
                     st.key = SubSeq(Nibbles(calls[i].key), depth + 1,
                                     Len(Nibbles(calls[i].key)))
       /\ st.nodeType = branchNode
              => \A i \in DOMAIN st.children : OffsetsFrom(st.children[i], depth + 1)
       /\ st.nodeType = extNode
              => \A i \in DOMAIN st.children :
                     OffsetsFrom(st.children[i], depth + Len(st.key))

\* C26: after every completed insert, every non-hashed node's keyOffset
\* equals the number of nibbles consumed on the path from the root to it:
\* the root has 0, a child of a branch the branch's keyOffset + 1, the
\* branch below an extension the extension's keyOffset + len(extension
\* key); every leaf's stored key equals the inserted key from its
\* keyOffset to the end.
C26_KeyOffset == Built => OffsetsFrom(root, 0)

\* an extension over a branch over a leaf, none of them hashed: the offsets
\* 0, len(extension key) and len(extension key) + 1
C26_Witness ==
    /\ Built
    /\ root.nodeType = extNode
    /\ \E i \in DOMAIN root.children[0].children :
           /\ root.children[0].children[i].nodeType = leafNode
           /\ root.children[0].children[i].keyOffset = Len(root.key) + 1

\* an extension has a key of at least one nibble and one child, in slot 0,
\* that is a branch or a hashed node
ExtShape(st) ==
    /\ Len(st.key) >= 1
    /\ DOMAIN st.children = {0}
    /\ st.children[0].nodeType \in {branchNode, hashedNode}

\* C27: after every completed insert of an ascending prefix-free sequence,
\* every node of kind extension has a key of at least one nibble, a
\* non-null child in slot 0 that is a branch or a hashed node, and null in
\* slots 1..15.
C27_ExtShape ==
    (Built /\ Correct) => \A st \in Nodes(root) : st.nodeType = extNode => ExtShape(st)

\* the root is an extension over a branch
C27_Witness ==
    /\ Built
    /\ Correct
    /\ root.nodeType = extNode
    /\ root.children[0].nodeType = branchNode

\* a branch has two children or more, and a child that is not hashed is in
\* the largest of the slots that are not nil: so there is one at most
BranchShape(st) ==
    /\ Cardinality(DOMAIN st.children) >= 2
    /\ \A i \in DOMAIN st.children :
           st.children[i].nodeType # hashedNode
               => \A j \in DOMAIN st.children : j <= i

KindChange(a, b) ==
    \/ a = b
    \/ a = emptyNode /\ b = leafNode
    \/ a = leafNode /\ b \in {extNode, branchNode}
    \/ a = extNode /\ b = branchNode
    \/ a \in {leafNode, extNode, branchNode} /\ b = hashedNode

\* the child of the extension o split at diffidx, paired with itself after
\* the split: m, the hashed node in the slot of the original part, when the
\* break is on the last nibble, else the child m keeps if it keeps one
Moved(o, m, diffidx) ==
    IF diffidx = Len(o.key) - 1 THEN {<<o.children[0], m>>}
    ELSE IF 0 \in DOMAIN m.children THEN {<<o.children[0], m.children[0]>>}
    ELSE {}

\* the pairs <<o, n>> of a node o of the subtree of o that insert(key) can
\* lay hands on and the same node n after the insert: the nodes on its way
\* down, the siblings in the branches it goes through, and the child of an
\* extension it splits, which moves below the new branch
RECURSIVE Track(_, _, _)
Track(o, n, key) ==
    {<<o, n>>} \cup
    IF o.nodeType = branchNode /\ n.nodeType = branchNode /\ o.keyOffset < Len(key)
    THEN {<<o.children[i], n.children[i]>> :
              i \in (DOMAIN o.children \cap DOMAIN n.children) \ {key[o.keyOffset + 1]}}
         \cup (IF key[o.keyOffset + 1] \notin DOMAIN n.children THEN {}
               ELSE IF key[o.keyOffset + 1] \in DOMAIN o.children
               THEN Track(o.children[key[o.keyOffset + 1]],
                          n.children[key[o.keyOffset + 1]], key)
               ELSE {<<[NewReStackTrie EXCEPT !.keyOffset = o.keyOffset + 1],
                       n.children[key[o.keyOffset + 1]]>>})
    ELSE IF o.nodeType = extNode /\ 0 \in DOMAIN o.children
    THEN IF getDiffIndex(o, key) = Len(o.key)
         THEN IF 0 \in DOMAIN n.children
              THEN Track(o.children[0], n.children[0], key) ELSE {}
         ELSE IF getDiffIndex(o, key) = 0
         THEN IF n.nodeType = branchNode /\ o.key[1] \in DOMAIN n.children
              THEN Moved(o, n.children[o.key[1]], 0) ELSE {}
         ELSE IF /\ getDiffIndex(o, key) > 0
                 /\ n.nodeType = extNode
                 /\ Len(n.key) = getDiffIndex(o, key)
                 /\ o.key[getDiffIndex(o, key) + 1] \in DOMAIN n.children[0].children
         THEN Moved(o, n.children[0].children[o.key[getDiffIndex(o, key) + 1]],
                    getDiffIndex(o, key))
         ELSE {}
    ELSE {}

\* C29: once a node has kind hashed, no later TryUpdate changes its kind or
\* its value; the only kind changes insert performs are empty to leaf, leaf
\* to extension or branch, extension to branch, and leaf, extension or
\* branch to hashed; a node never returns to empty.
C29_HashedTerminal ==
    [][calls' # calls =>
          \A pr \in Track(root, root', InsertedKey) :
              /\ pr[1].nodeType = hashedNode
                     => (pr[2].nodeType = hashedNode /\ pr[2].val = pr[1].val)
              /\ KindChange(pr[1].nodeType, pr[2].nodeType)
              /\ pr[2].nodeType = emptyNode => pr[1].nodeType = emptyNode]_vars

\* three calls were made and the root branch has two hashed children: the
\* one hashed by the second call went through the third
C29_Witness ==
    /\ Len(calls) = 3
    /\ phase = "building"
    /\ root.nodeType = branchNode
    /\ \E i, j \in DOMAIN root.children :
           /\ i < j
           /\ root.children[i].nodeType = hashedNode
           /\ root.children[j].nodeType = hashedNode

\* C30: after every completed insert, the value field is non-empty only on
\* leaf nodes (the user value) and hashed nodes (the collapsed form); every
\* branch and every extension, including nodes that were converted from a
\* leaf by a split, has an empty value.
C30_ValueDiscipline ==
    (Built /\ Correct)
        => \A st \in Live(root) :
               st.nodeType \notin {leafNode, hashedNode} => st.val = <<>>


(***************************************************************************)
(* Termination of insert.                                                  *)
(***************************************************************************)
\* the nodes insert(key) visits, in order, from o down: each as the pair
\* <<o, n>> of the node before the call and the node the call left in its
\* place; the child a branch creates is paired from the empty node
RECURSIVE Visited(_, _, _)
Visited(o, n, key) ==
    <<(<<o, n>>)>> \o
    IF o.nodeType = branchNode /\ o.keyOffset < Len(key)
    THEN IF key[o.keyOffset + 1] \notin DOMAIN n.children THEN <<>>
         ELSE IF key[o.keyOffset + 1] \in DOMAIN o.children
         THEN Visited(o.children[key[o.keyOffset + 1]],
                      n.children[key[o.keyOffset + 1]], key)
         ELSE <<(<<NewReStackTrie, n.children[key[o.keyOffset + 1]]>>)>>
    ELSE IF /\ o.nodeType = extNode
            /\ getDiffIndex(o, key) = Len(o.key)
            /\ 0 \in DOMAIN o.children
            /\ 0 \in DOMAIN n.children
    THEN Visited(o.children[0], n.children[0], key)
    ELSE <<>>

\* the call of insert on the node p[1] did not recurse: it made the leaf
\* (empty node), split the leaf or split the extension
Settled(p) == p[1].nodeType # p[2].nodeType \/ p[1].key # p[2].key

\* along v every node lies deeper than the one before it, and exactly one
\* call, the last, made the leaf or the split
Descends(v) ==
    /\ \A i \in 1..(Len(v) - 1) : v[i + 1][2].keyOffset > v[i][2].keyOffset
    /\ {i \in 1..Len(v) : Settled(v[i])} = {Len(v)}

\* C31 as stated: insert recurses only into a child whose keyOffset is
\* strictly larger than the current node's, so an update that returns has
\* visited at most 2 x (nibble length of the key) nodes and has made its
\* split or its leaf exactly once.
C31_InsertTerminates ==
    [][Inserted => /\ Descends(Visited(root, root', InsertedKey))
                   /\ Len(Visited(root, root', InsertedKey)) <= 2 * Len(InsertedKey)]_vars

\* C31, amended: the same, with the bound (nibble length of the key) + 1 on
\* the nodes visited: the update of the empty key visits one node, the root.
C31_InsertDescends ==
    [][Inserted => /\ Descends(Visited(root, root', InsertedKey))
                   /\ Len(Visited(root, root', InsertedKey)) <= Len(InsertedKey) + 1]_vars

\* an update has gone through the root extension and the branch below it
\* to make its leaf
C31_Witness ==
    /\ status = ""
    /\ phase = "building"
    /\ Len(calls) = 3
    /\ calls[3].key = <<18, 18>>
    /\ root.nodeType = extNode
    /\ 0 \in DOMAIN root.children
    /\ root.children[0].nodeType = branchNode
    /\ 2 \in DOMAIN root.children[0].children
    /\ root.children[0].children[2].nodeType \in {extNode, branchNode}

(***************************************************************************)
(* The lengths the headers state.                                          *)
(***************************************************************************)
\* the big-endian number of the bytes bs
RECURSIVE FromBigEndian(_)
FromBigEndian(bs) ==
    IF bs = <<>> THEN 0
    ELSE 256 * FromBigEndian(SubSeq(bs, 1, Len(bs) - 1)) + bs[Len(bs)]

\* what the RLP header at the start of bs states: header is the number of
\* bytes of the header and length the number of payload bytes it announces
StatedLength(bs) ==
    IF bs[1] < 128 THEN [header |-> 0, length |-> 1]
    ELSE IF bs[1] <= 183 THEN [header |-> 1, length |-> bs[1] - 128]
    ELSE IF bs[1] <= 191
    THEN [header |-> 1 + (bs[1] - 183),
          length |-> FromBigEndian(SubSeq(bs, 2, 1 + (bs[1] - 183)))]
    ELSE IF bs[1] <= 247 THEN [header |-> 1, length |-> bs[1] - 192]
    ELSE [header |-> 1 + (bs[1] - 247),
          length |-> FromBigEndian(SubSeq(bs, 2, 1 + (bs[1] - 247)))]

\* the value field of the encoding enc that writeHPRLP wrote for val: the
\* header it wrote for the value, and the value
ValueField(enc, val) ==
    SubSeq(enc, Len(enc) - Len(val) - writeValHeaderLen(val) + 1, Len(enc))

\* C32: for every leaf value of 1 to 256 bytes, the list header and the
\* value header that writeHPRLP writes state the true payload length and
\* the true value length; no length is reduced modulo 256 when it is stored
\* in a single header byte.
C32_TrueLengths ==
    (phase = "written" /\ status = "" /\ calls[1].leaf /\ Len(calls[1].value) <= 256)
        => /\ StatedLength(rootEnc).length = Len(rootEnc) - StatedLength(rootEnc).header
           /\ StatedLength(ValueField(rootEnc, calls[1].value)).length
                  = Len(calls[1].value)

(***************************************************************************)
(* Hash in the middle of the updates: a correct caller (ascending keys,    *)
(* none a prefix of another, values not empty) that calls Hash whenever it *)
(* likes, up to MaxHashes times, and goes on.                              *)
(***************************************************************************)
\* the number of Hash calls in one run
MaxHashes == 2

\* TryUpdate(key, value) by a correct caller
UpdateInOrder(key, value) ==
    /\ value # <<>>
    /\ \A i \in 1..Len(calls) :
           /\ NibLess(Nibbles(calls[i].key), Nibbles(key))
           /\ ~IsPrefix(Nibbles(calls[i].key), Nibbles(key))
    /\ TryUpdate(key, value)

\* Hash(), after which the caller may go on
HashAndGoOn ==
    /\ phase = "building"
    /\ status = ""
    /\ Len(hashes) < MaxHashes
    /\ \E r \in {hash(root)} :
           /\ root' = r.st
           /\ status' = r.err
           /\ rootEnc' = r.enc
           /\ rootHash' = r.bytes
           /\ digest' = IF r.err = "" THEN BytesToHash(r.bytes) ELSE <<>>
           /\ hashes' = Append(hashes, [calls |-> Len(calls), digest |-> digest'])
    /\ UNCHANGED <<calls, phase, nodeVars, hsVars>>

HashNext ==
    \/ \E key \in Keys, value \in Values : UpdateInOrder(key, value)
    \/ HashAndGoOn

HashSpec == Init /\ [][HashNext]_vars

\* the trie a new ReStackTrie becomes by the first k calls, with no Hash in
\* between
RECURSIVE Replayed(_)
Replayed(k) ==
    IF k = 0 THEN NewReStackTrie
    ELSE insert(Replayed(k - 1), Nibbles(calls[k].key), calls[k].value).st

\* what Hash() returns for the trie st
HashOf(st) == BytesToHash(hash(st).bytes)

\* C33: Hash is repeatable: for every trie state reached by ascending
\* updates, a call of Hash() leaves the kind, key, value and children of
\* every node as they were, and a second call with no update in between
\* returns the digest of the first.
C33_HashRepeatable ==
    [][Len(hashes') > Len(hashes)
           => /\ root' = root
              /\ (hashes # <<>> /\ hashes[Len(hashes)].calls = Len(calls))
                     => /\ status' = ""
                        /\ digest' = hashes[Len(hashes)].digest]_vars

\* the i-th Hash() call came after updates that followed every Hash() call
\* before it
HashedAgainAfterUpdates(i) == i > 1 /\ \A j \in 1..(i - 1) : hashes[j].calls < hashes[i].calls

\* C34: Hash does not disturb later inserts: for every ascending key
\* sequence, after a Hash() call on a prefix of the updates the remaining
\* updates do not fail, and the final Hash() returns what it returns for a
\* trie that got all the updates with no Hash() in between.
C34_HashThenInsert ==
    /\ (hashes # <<>> /\ hashes[Len(hashes)].calls < Len(calls)) => status = ""
    /\ \A i \in DOMAIN hashes :
           HashedAgainAfterUpdates(i)
               => hashes[i].digest = HashOf(Replayed(hashes[i].calls))

(***************************************************************************)
(* The scratch buffers.                                                    *)
(***************************************************************************)
\* hash() takes the node st, a leaf or an extension, to its small encoder:
\* ch is the reference of the child of an extension
SmallLeaf(st) ==
    st.nodeType = leafNode /\ (Len(st.key) \div 2) + 1 + Len(st.val) < 29

SmallExt(st, ch) ==
    st.nodeType = extNode /\ (Len(st.key) \div 2) + 1 + Len(ch) < 29

\* hash() of the node st stays inside its buffers: no index leaves payload
\* or rlp (the model of each write reports one that does), what it returns
\* has 1 to 32 bytes, a small encoder is entered only with an output of at
\* most 32 bytes and a branch fills at most its 544 bytes
WithinBuffers(st, r) ==
    /\ r.err = ""
    /\ Len(r.bytes) \in 1..32
    /\ SmallLeaf(st) => Len(r.enc) <= 32
    /\ (st.nodeType = extNode /\ 0 \in DOMAIN st.children
            /\ SmallExt(st, hash(st.children[0]).bytes))
           => Len(r.enc) <= 32
    /\ st.nodeType = branchNode => Len(r.enc) + 2 <= 544

\* C35: scratch buffers are never overrun: for every node reachable by
\* ascending updates with non-empty values, every child reference returned
\* by hash() has between 1 and 32 bytes, the branch encoder writes only
\* inside its 544-byte buffer, and the small leaf and small extension
\* encoders are entered only when their whole output fits the 32-byte
\* buffer, so no write index leaves the buffer.
C35_BuffersNotOverrun ==
    (Built /\ Correct) => \A st \in Live(root) : WithinBuffers(st, hash(st))

\* a trie with a leaf for the small encoder, an extension for it, and a
\* branch that holds a 32-byte hash
C35_Witness ==
    /\ Built
    /\ Correct
    /\ \E st \in Live(root) : SmallLeaf(st)
    /\ \E st \in Live(root) :
           /\ st.nodeType = extNode
           /\ SmallExt(st, hash(st.children[0]).bytes)
    /\ \E st \in Live(root) :
           /\ st.nodeType = branchNode
           /\ \E i \in DOMAIN st.children : Len(hash(st.children[i]).bytes) = 32

(***************************************************************************)
(* The life cycle of the node.                                             *)
(***************************************************************************)
\* the node is running: Start has succeeded and Stop has not been called
Running == node.server # "nil" /\ p2p.running

\* a Wait call made while the node was running holds the channel of that
\* run, and has not returned unless that channel is closed; while the
\* channel is open the node is still running on it
WaitsForStop(w) ==
    waits[w].running
        => /\ waits[w].stop # 0
           /\ waits[w].pc # "idle"
           /\ waits[w].pc = "returned" => chans[waits[w].stop] = "closed"
           /\ chans[waits[w].stop] = "open" => (Running /\ node.stop = waits[w].stop)

\* a step of Stop on a running node closes the channel of the node, which
\* was open; a step of Start that succeeds makes the node a new, open
\* channel; no other step makes or closes a channel
ClosedOncePerStart ==
    IF p2p.running /\ ~p2p'.running
    THEN /\ ret'.panic = ""
         /\ node.stop \in DOMAIN chans
         /\ chans[node.stop] = "open"
         /\ chans' = [chans EXCEPT ![node.stop] = "closed"]
    ELSE IF ~p2p.running /\ p2p'.running
    THEN /\ chans' = Append(chans, "open")
         /\ node'.stop = Len(chans')
    ELSE chans' = chans

C37_WaitReturnsWhenNotRunning ==
    \A w \in Waiters : (waits[w].pc # "idle" /\ ~waits[w].running) => waits[w].pc = "returned"

\* C38: Node.Stop on a node that is not running returns ErrNodeStopped and
\* changes nothing: lifecycles, server, instance-directory lock and stop
\* channel are as before; Start on a running node returns ErrNodeRunning
\* and changes nothing.
C38_NotRunningErrors ==
    [][/\ (Stop /\ ~Running)
            => /\ ret' = returned("Stop", "ErrNodeStopped")
               /\ UNCHANGED <<node, p2p, chans, services>>
       /\ (Start /\ Running)
            => /\ ret' = returned("Start", "ErrNodeRunning")
               /\ UNCHANGED <<node, p2p, chans, services>>]_vars

\* Stop has returned ErrNodeStopped on a node that was stopped before
C38_Witness ==
    /\ ret = returned("Stop", "ErrNodeStopped")
    /\ node.server = "nil"
    /\ chans = <<"closed">>

\* C39: Node.Start rolls back on a lifecycle failure: when the Start of a
\* registered lifecycle returns an error during Node.Start, every lifecycle
\* whose Start succeeded in that call has Stop called on it, the p2p server
\* is stopped, Start returns that error, and the node is not running
\* afterwards.
C39_StartRollsBack ==
    [][(p2p'.starts # p2p.starts /\ ret'.err = "lifecycle")
           => /\ \A k \in DOMAIN services :
                     services'[k].starts # services[k].starts
                         => services'[k].stops = services[k].stops + 1
              /\ ret'.failed \in node'.lifecycles
              /\ services'[ret'.failed].starts = services[ret'.failed].starts
              /\ ~p2p'.running
              /\ ~Running']_vars

\* Start has failed on the second lifecycle, and the first was stopped
C39_Witness ==
    /\ ret.op = "Start"
    /\ ret.err = "lifecycle"
    /\ ret.started # {}
    /\ \A k \in ret.started : services[k].starts = 1 /\ services[k].stops = 1

(***************************************************************************)
(* The protocol handshake.                                                 *)
(***************************************************************************)
\* C40: the protocol handshake joins its writer: doProtoHandshake returns
\* only after the goroutine that sends our handshake has finished, on every
\* path; when reading the handshake of the peer fails the read error is
\* returned, also when the write failed too, and a write error is returned
\* only when the read succeeded.
C40_HandshakeJoinsWriter ==
    hs.pc = "returned"
        => /\ hs.writer = "done"
           /\ hs.werr = <<>>
           /\ hs.read.err # "" => (hs.err = hs.read.err /\ hs.their = 0)
           /\ hs.err = "write error: " \o hs.sent => (hs.read.err = "" /\ hs.sent # "")
           /\ (hs.read.err = "" /\ hs.sent # "") => hs.err = "write error: " \o hs.sent
           /\ (hs.read.err = "" /\ hs.sent = "") => (hs.err = "" /\ hs.their = hs.read.their)

\* doProtoHandshake has returned the read error when the write had failed
\* as well
C40_Witness ==
    /\ hs.pc = "returned"
    /\ hs.read.err = "DiscReason"
    /\ hs.sent = "broken pipe"
    /\ hs.err = "DiscReason"
=============================================================================
